---- MODULE Spec2Model ----
(***************************************************************************)
(* Lexical front end of the SQL dialect (src/cgo/sql_parser.c): character  *)
(* cursor, keyword table, the four literal scanners and the lexer driver.  *)
(* Bytes are modelled as their ASCII codes, C strings as sequences of      *)
(* codes, heap buffers as entries of a heap indexed by pointer.            *)
(***************************************************************************)
EXTENDS Integers, Sequences, FiniteSets, TLC

(***************************************************************************)
(* Bytes and C strings                                                     *)
(***************************************************************************)

\* The printable ASCII characters in code order: codes 32..95 and 97..126.
AsciiLow ==
    " !\"#$%&'(" \o ")*+,-./0123456789:;<=>?@" \o "ABCDEFGHIJKLMNOPQRSTUVWXYZ[\\]^_"

AsciiHigh == "abcdefghijklmnopqrstuvwxyz{|}~"

ControlChars == {"\t", "\n", "\f", "\r"}

CharSet ==
    {SubSeq(AsciiLow, i, i) : i \in 1..Len(AsciiLow)}
        \cup {SubSeq(AsciiHigh, i, i) : i \in 1..Len(AsciiHigh)}
        \cup ControlChars

\* Code of a character written as a one-character string.
OrdTable ==
    [c \in CharSet |->
        CASE c = "\t" -> 9
          [] c = "\n" -> 10
          [] c = "\f" -> 12
          [] c = "\r" -> 13
          [] \E i \in 1..Len(AsciiLow) : SubSeq(AsciiLow, i, i) = c ->
                31 + (CHOOSE i \in 1..Len(AsciiLow) : SubSeq(AsciiLow, i, i) = c)
          [] OTHER ->
                96 + (CHOOSE i \in 1..Len(AsciiHigh) : SubSeq(AsciiHigh, i, i) = c)]

Ch(c) == OrdTable[c]

\* The bytes of a C string literal.
Bytes(s) == [i \in 1..Len(s) |-> OrdTable[SubSeq(s, i, i)]]

\* The NUL byte: string terminator, and the end marker lexer_peek returns.
NUL == 0

\* A null pointer (token value).
NULL == 0

\* A null error message pointer.
NullMsg == "(null)"

tolower(c) == IF c >= Ch("A") /\ c <= Ch("Z") THEN c + 32 ELSE c

(***************************************************************************)
(* Keyword table                                                           *)
(***************************************************************************)

keywords == <<
    [name |-> "action", token |-> "TOKEN_ACTION"],
    [name |-> "all", token |-> "TOKEN_ALL"],
    [name |-> "alter", token |-> "TOKEN_ALTER"],
    [name |-> "analyze", token |-> "TOKEN_ANALYZE_P"],
    [name |-> "and", token |-> "TOKEN_AND"],
    [name |-> "any", token |-> "TOKEN_ANY"],
    [name |-> "array", token |-> "TOKEN_ARRAY"],
    [name |-> "as", token |-> "TOKEN_AS"],
    [name |-> "asc", token |-> "TOKEN_ASC"],
    [name |-> "begin", token |-> "TOKEN_BEGIN_P"],
    [name |-> "between", token |-> "TOKEN_BETWEEN"],
    [name |-> "bigint", token |-> "TOKEN_BIGINT"],
    [name |-> "bit", token |-> "TOKEN_BIT"],
    [name |-> "boolean", token |-> "TOKEN_BOOLEAN"],
    [name |-> "both", token |-> "TOKEN_BOTH"],
    [name |-> "by", token |-> "TOKEN_BY"],
    [name |-> "cascade", token |-> "TOKEN_CASCADE"],
    [name |-> "case", token |-> "TOKEN_CASE"],
    [name |-> "cast", token |-> "TOKEN_CAST"],
    [name |-> "char", token |-> "TOKEN_CHAR_P"],
    [name |-> "character", token |-> "TOKEN_CHARACTER"],
    [name |-> "check", token |-> "TOKEN_CHECK"],
    [name |-> "cluster", token |-> "TOKEN_CLUSTER"],
    [name |-> "coalesce", token |-> "TOKEN_COALESCE_EXPR"],
    [name |-> "collate", token |-> "TOKEN_COLLATE"],
    [name |-> "column", token |-> "TOKEN_COLUMN_REF"],
    [name |-> "commit", token |-> "TOKEN_COMMIT"],
    [name |-> "committed", token |-> "TOKEN_COMMITTED"],
    [name |-> "constraint", token |-> "TOKEN_CONSTRAINT"],
    [name |-> "copy", token |-> "TOKEN_COPY"],
    [name |-> "create", token |-> "TOKEN_CREATE"],
    [name |-> "cross", token |-> "TOKEN_CROSS"],
    [name |-> "current", token |-> "TOKEN_CURRENT_P"],
    [name |-> "database", token |-> "TOKEN_DATABASE"],
    [name |-> "date", token |-> "TOKEN_DATE"],
    [name |-> "decimal", token |-> "TOKEN_DECIMAL_P"],
    [name |-> "default", token |-> "TOKEN_DEFAULT"],
    [name |-> "deferrable", token |-> "TOKEN_DEFERRABLE"],
    [name |-> "deferred", token |-> "TOKEN_DEFERRED"],
    [name |-> "delete", token |-> "TOKEN_DELETE"],
    [name |-> "desc", token |-> "TOKEN_DESC"],
    [name |-> "distinct", token |-> "TOKEN_DISTINCT"],
    [name |-> "double", token |-> "TOKEN_DOUBLE_P"],
    [name |-> "drop", token |-> "TOKEN_DROP"],
    [name |-> "else", token |-> "TOKEN_ELSE"],
    [name |-> "end", token |-> "TOKEN_END_P"],
    [name |-> "except", token |-> "TOKEN_EXCEPT"],
    [name |-> "execute", token |-> "TOKEN_EXECUTE"],
    [name |-> "exists", token |-> "TOKEN_EXISTS"],
    [name |-> "explain", token |-> "TOKEN_EXPLAIN"],
    [name |-> "extract", token |-> "TOKEN_EXTRACT"],
    [name |-> "false", token |-> "TOKEN_FALSE_P"],
    [name |-> "following", token |-> "TOKEN_FOLLOWING"],
    [name |-> "for", token |-> "TOKEN_FOR"],
    [name |-> "foreign", token |-> "TOKEN_FOREIGN"],
    [name |-> "from", token |-> "TOKEN_FROM"],
    [name |-> "full", token |-> "TOKEN_FULL_P"],
    [name |-> "function", token |-> "TOKEN_FUNCTION"],
    [name |-> "grant", token |-> "TOKEN_GRANT"],
    [name |-> "group", token |-> "TOKEN_GROUP_P"],
    [name |-> "having", token |-> "TOKEN_HAVING"],
    [name |-> "if", token |-> "TOKEN_IF_P"],
    [name |-> "ilike", token |-> "TOKEN_ILIKE"],
    [name |-> "immediate", token |-> "TOKEN_IMMEDIATE"],
    [name |-> "in", token |-> "TOKEN_IN"],
    [name |-> "index", token |-> "TOKEN_INDEX"],
    [name |-> "initially", token |-> "TOKEN_INITIALLY"],
    [name |-> "inner", token |-> "TOKEN_INNER_P"],
    [name |-> "insert", token |-> "TOKEN_INSERT"],
    [name |-> "integer", token |-> "TOKEN_INTEGER"],
    [name |-> "intersect", token |-> "TOKEN_INTERSECT"],
    [name |-> "interval", token |-> "TOKEN_INTERVAL"],
    [name |-> "into", token |-> "TOKEN_INTO_CLAUSE"],
    [name |-> "is", token |-> "TOKEN_IS"],
    [name |-> "join", token |-> "TOKEN_JOIN"],
    [name |-> "json", token |-> "TOKEN_JSON"],
    [name |-> "jsonb", token |-> "TOKEN_JSONB"],
    [name |-> "key", token |-> "TOKEN_KEY"],
    [name |-> "leading", token |-> "TOKEN_LEADING"],
    [name |-> "left", token |-> "TOKEN_LEFT"],
    [name |-> "level", token |-> "TOKEN_LEVEL"],
    [name |-> "like", token |-> "TOKEN_LIKE"],
    [name |-> "limit", token |-> "TOKEN_LIMIT"],
    [name |-> "local", token |-> "TOKEN_LOCAL"],
    [name |-> "match", token |-> "TOKEN_MATCH"],
    [name |-> "natural", token |-> "TOKEN_NATURAL"],
    [name |-> "no", token |-> "TOKEN_NO"],
    [name |-> "not", token |-> "TOKEN_NOT"],
    [name |-> "null", token |-> "TOKEN_NULL_P"],
    [name |-> "numeric", token |-> "TOKEN_NUMERIC"],
    [name |-> "offset", token |-> "TOKEN_OFFSET"],
    [name |-> "on", token |-> "TOKEN_ON"],
    [name |-> "only", token |-> "TOKEN_ONLY"],
    [name |-> "or", token |-> "TOKEN_OR"],
    [name |-> "order", token |-> "TOKEN_ORDER"],
    [name |-> "outer", token |-> "TOKEN_OUTER_P"],
    [name |-> "over", token |-> "TOKEN_OVER"],
    [name |-> "overlay", token |-> "TOKEN_OVERLAY"],
    [name |-> "partial", token |-> "TOKEN_PARTIAL"],
    [name |-> "partition", token |-> "TOKEN_PARTITION"],
    [name |-> "position", token |-> "TOKEN_POSITION"],
    [name |-> "preceding", token |-> "TOKEN_PRECEDING"],
    [name |-> "precision", token |-> "TOKEN_PRECISION"],
    [name |-> "primary", token |-> "TOKEN_PRIMARY"],
    [name |-> "procedure", token |-> "TOKEN_PROCEDURE"],
    [name |-> "public", token |-> "TOKEN_PUBLIC"],
    [name |-> "range", token |-> "TOKEN_RANGE"],
    [name |-> "read", token |-> "TOKEN_READ"],
    [name |-> "real", token |-> "TOKEN_REAL"],
    [name |-> "recursive", token |-> "TOKEN_RECURSIVE"],
    [name |-> "references", token |-> "TOKEN_REFERENCES"],
    [name |-> "reindex", token |-> "TOKEN_REINDEX"],
    [name |-> "restrict", token |-> "TOKEN_RESTRICT"],
    [name |-> "revoke", token |-> "TOKEN_REVOKE"],
    [name |-> "right", token |-> "TOKEN_RIGHT"],
    [name |-> "role", token |-> "TOKEN_ROLE"],
    [name |-> "rollback", token |-> "TOKEN_ROLLBACK"],
    [name |-> "row", token |-> "TOKEN_ROW"],
    [name |-> "rows", token |-> "TOKEN_ROWS"],
    [name |-> "schema", token |-> "TOKEN_SCHEMA"],
    [name |-> "select", token |-> "TOKEN_SELECT"],
    [name |-> "serializable", token |-> "TOKEN_SERIALIZABLE"],
    [name |-> "set", token |-> "TOKEN_SET"],
    [name |-> "similar", token |-> "TOKEN_SIMILAR"],
    [name |-> "smallint", token |-> "TOKEN_SMALLINT"],
    [name |-> "some", token |-> "TOKEN_SOME"],
    [name |-> "start", token |-> "TOKEN_START"],
    [name |-> "substring", token |-> "TOKEN_SUBSTRING"],
    [name |-> "table", token |-> "TOKEN_TABLE"],
    [name |-> "temp", token |-> "TOKEN_TEMP"],
    [name |-> "temporary", token |-> "TOKEN_TEMPORARY"],
    [name |-> "text", token |-> "TOKEN_TEXT"],
    [name |-> "then", token |-> "TOKEN_THEN"],
    [name |-> "time", token |-> "TOKEN_TIME"],
    [name |-> "timestamp", token |-> "TOKEN_TIMESTAMP"],
    [name |-> "trailing", token |-> "TOKEN_TRAILING"],
    [name |-> "transaction", token |-> "TOKEN_TRANSACTION"],
    [name |-> "trigger", token |-> "TOKEN_TRIGGER"],
    [name |-> "trim", token |-> "TOKEN_TRIM"],
    [name |-> "true", token |-> "TOKEN_TRUE_P"],
    [name |-> "truncate", token |-> "TOKEN_TRUNCATE"],
    [name |-> "unbounded", token |-> "TOKEN_UNBOUNDED"],
    [name |-> "uncommitted", token |-> "TOKEN_UNCOMMITTED"],
    [name |-> "union", token |-> "TOKEN_UNION"],
    [name |-> "unique", token |-> "TOKEN_UNIQUE"],
    [name |-> "update", token |-> "TOKEN_UPDATE"],
    [name |-> "user", token |-> "TOKEN_USER"],
    [name |-> "using", token |-> "TOKEN_USING"],
    [name |-> "vacuum", token |-> "TOKEN_VACUUM"],
    [name |-> "varchar", token |-> "TOKEN_VARCHAR"],
    [name |-> "view", token |-> "TOKEN_VIEW"],
    [name |-> "when", token |-> "TOKEN_WHEN"],
    [name |-> "where", token |-> "TOKEN_WHERE"],
    [name |-> "window", token |-> "TOKEN_WINDOW"],
    [name |-> "with", token |-> "TOKEN_WITH"],
    [name |-> "work", token |-> "TOKEN_WORK"],
    [name |-> "write", token |-> "TOKEN_WRITE"]
>>

num_keywords == Len(keywords)

\* The spellings with the first two entries of the table exchanged.
keyword_names_first_two_exchanged ==
    [i \in 1..num_keywords |->
        Bytes(keywords[IF i = 1 THEN 2 ELSE IF i = 2 THEN 1 ELSE i].name)]

\* The spellings of the table as C strings.
keyword_names == [i \in 1..num_keywords |-> Bytes(keywords[i].name)]

\* strlen of a NUL-terminated string whose bytes before the terminator are s.
strlen(s) == Len(s)

\* Byte i (0-based) of the NUL-terminated string s.
ByteAt(s, i) == IF i < Len(s) THEN s[i + 1] ELSE NUL

\* strncasecmp: compares at most n bytes, lower-cased, stopping at a NUL.
RECURSIVE strncasecmp_from(_, _, _, _)
strncasecmp_from(s1, s2, n, i) ==
    IF i >= n THEN 0
    ELSE LET c1 == tolower(ByteAt(s1, i))
             c2 == tolower(ByteAt(s2, i))
         IN  IF c1 # c2 THEN c1 - c2
             ELSE IF c1 = NUL THEN 0
             ELSE strncasecmp_from(s1, s2, n, i + 1)

strncasecmp(s1, s2, n) == strncasecmp_from(s1, s2, n, 0)

\* The binary search that accepts a probed spelling on the comparison of
\* the first len bytes alone.
RECURSIVE lookup_keyword_loop_any_length(_, _, _, _)
lookup_keyword_loop_any_length(str, len, left, right) ==
    IF left > right THEN "TOKEN_IDENT"
    ELSE LET mid == (left + right) \div 2
             cmp == strncasecmp(str, keyword_names[mid + 1], len)
         IN  IF cmp = 0
                 THEN keywords[mid + 1].token
             ELSE IF cmp < 0
                 THEN lookup_keyword_loop_any_length(str, len, left, mid - 1)
             ELSE lookup_keyword_loop_any_length(str, len, mid + 1, right)

\* The binary search loop of lookup_keyword; left and right are 0-based.
RECURSIVE lookup_keyword_loop(_, _, _, _)
lookup_keyword_loop(str, len, left, right) ==
    IF left > right THEN "TOKEN_IDENT"
    ELSE LET mid == (left + right) \div 2
             cmp == strncasecmp(str, keyword_names[mid + 1], len)
         IN  IF cmp = 0 /\ strlen(keyword_names[mid + 1]) = len
                 THEN keywords[mid + 1].token
             ELSE IF cmp < 0
                 THEN lookup_keyword_loop(str, len, left, mid - 1)
             ELSE lookup_keyword_loop(str, len, mid + 1, right)

lookup_keyword(str, len) == lookup_keyword_loop(str, len, 0, num_keywords - 1)

(***************************************************************************)
(* Character classification                                                *)
(***************************************************************************)

\* is_alpha that also takes the bytes above 127 as letters.
is_alpha_high_bytes(c) ==
    \/ c >= Ch("a") /\ c <= Ch("z")
    \/ c >= Ch("A") /\ c <= Ch("Z")
    \/ c = Ch("_")
    \/ c > 127

is_alpha(c) ==
    \/ c >= Ch("a") /\ c <= Ch("z")
    \/ c >= Ch("A") /\ c <= Ch("Z")
    \/ c = Ch("_")

is_digit(c) == c >= Ch("0") /\ c <= Ch("9")

is_alnum(c) == is_alpha(c) \/ is_digit(c)

is_space(c) == c \in {Ch(" "), Ch("\t"), Ch("\n"), Ch("\r"), Ch("\f")}

(***************************************************************************)
(* 64-bit integers                                                         *)
(*                                                                         *)
(* An int64_t value that strtoll produces from a run of decimal digits is  *)
(* kept as its decimal numeral: the sequence of its digit values without   *)
(* leading zeros (<<0>> for zero), so that the full 64-bit width is kept.  *)
(***************************************************************************)

\* LLONG_MAX = 2^63 - 1 = 9223372036854775807
LLONG_MAX == <<9, 2, 2, 3, 3, 7, 2, 0, 3, 6, 8, 5, 4, 7, 7, 5, 8, 0, 7>>

\* The digit values of a run of ASCII digits.
DigitValues(s) == [i \in 1..Len(s) |-> s[i] - Ch("0")]

RECURSIVE StripZeros(_)
StripZeros(d) ==
    IF Len(d) > 1 /\ d[1] = 0 THEN StripZeros(Tail(d)) ELSE d

\* Comparison of two numerals of the same length, digit by digit.
RECURSIVE NumeralLessFrom(_, _, _)
NumeralLessFrom(a, b, i) ==
    IF i > Len(a) THEN FALSE
    ELSE IF a[i] # b[i] THEN a[i] < b[i]
    ELSE NumeralLessFrom(a, b, i + 1)

NumeralLess(a, b) ==
    \/ Len(a) < Len(b)
    \/ Len(a) = Len(b) /\ NumeralLessFrom(a, b, 1)

\* The leading run of ASCII digits of a C string.
RECURSIVE DigitPrefix(_)
DigitPrefix(s) ==
    IF s # <<>> /\ is_digit(Head(s)) THEN <<Head(s)>> \o DigitPrefix(Tail(s)) ELSE <<>>

\* strtoll(s, NULL, 10) on a string that starts with a digit: the value of
\* the leading digit run, clamped to LLONG_MAX when it is out of range.
strtoll(s) ==
    LET d == DigitPrefix(s)
        n == IF d = <<>> THEN <<0>> ELSE StripZeros(DigitValues(d))
    IN  IF NumeralLess(LLONG_MAX, n) THEN LLONG_MAX ELSE n

\* strtod(s, NULL): the double nearest to the decimal literal s; the model
\* keeps the literal it was converted from.
strtod(s) == [literal |-> s]

(***************************************************************************)
(* Heap: palloc / pfree                                                    *)
(*                                                                         *)
(* A pointer is the index of a buffer in the heap, NULL is 0.  A buffer    *)
(* records its size, the string stored in it (the bytes before the NUL),   *)
(* whether a write went past its end, and how often it was freed.          *)
(***************************************************************************)

palloc(h, size) ==
    Append(h, [size |-> size, bytes |-> <<>>, overrun |-> FALSE, frees |-> 0])

\* The pointer palloc(h, size) returns.
palloc_ptr(h) == Len(h) + 1

pfree(h, ptr) ==
    IF ptr # NULL THEN [h EXCEPT ![ptr].frees = @ + 1] ELSE h

\* The C string held in the bytes b: the bytes before the first NUL.
RECURSIVE c_string(_)
c_string(b) ==
    IF b = <<>> \/ Head(b) = NUL THEN <<>> ELSE <<Head(b)>> \o c_string(Tail(b))

\* Writes the bytes s and the terminating NUL at the start of buffer ptr.
StoreString(h, ptr, s) ==
    [h EXCEPT ![ptr].bytes = s,
              ![ptr].overrun = @ \/ Len(s) + 1 > h[ptr].size]

\* pstrdup(str): a new buffer of strlen(str) + 1 bytes holding the C string
\* at str; the pointer returned is palloc_ptr(h).
pstrdup(h, str) ==
    StoreString(palloc(h, Len(c_string(h[str].bytes)) + 1), palloc_ptr(h),
                c_string(h[str].bytes))

(***************************************************************************)
(* Inputs                                                                  *)
(*                                                                         *)
(* The lexer is run on every input of a few families, each family being    *)
(* all strings up to a length over the bytes one part of the lexer reacts  *)
(* to, and on a list of sample statements.                                 *)
(***************************************************************************)

MaxOperatorLen == 3
MaxNumberLen == 4
MaxStringLen == 5
MaxCommentLen == 4
MaxKeywordLen == 3

\* The number of lexer_next_token calls the caller makes on one lexer.
MaxCalls == 6

Alphabet(s) == {OrdTable[SubSeq(s, i, i)] : i \in 1..Len(s)}

SeqsUpTo(A, n) == UNION {[1..k -> A] : k \in 0..n}

OperatorInputs == SeqsUpTo(Alphabet("-#<>=!~*|:"), MaxOperatorLen)

NumberInputs == SeqsUpTo(Alphabet("1.e-$x"), MaxNumberLen)

StringInputs == SeqsUpTo(Alphabet("'\"\\a"), MaxStringLen)

CommentInputs == SeqsUpTo(Alphabet("/*-\n a"), MaxCommentLen)

\* Every single byte, and the strings over bytes no scanner accepts mixed
\* with `!`, a letter and a blank.
ByteInputs ==
    {<<b>> : b \in 0..255}
        \cup SeqsUpTo({NUL, 200, Ch("@"), Ch("?"), Ch("!"), Ch("a"), Ch(" ")},
                      MaxOperatorLen)

toupper(c) == IF c >= Ch("a") /\ c <= Ch("z") THEN c - 32 ELSE c

\* Every upper/lower-case variant of the word w.
RECURSIVE CaseVariants(_)
CaseVariants(w) ==
    IF w = <<>> THEN {<<>>}
    ELSE {<<c>> \o v : c \in {tolower(Head(w)), toupper(Head(w))},
                       v \in CaseVariants(Tail(w))}

UpperCase(w) == [i \in 1..Len(w) |-> toupper(w[i])]

\* Every proper prefix of a keyword, and every keyword extended by a byte.
KeywordPrefixes ==
    UNION {{SubSeq(keyword_names[i], 1, k) : k \in 1..(Len(keyword_names[i]) - 1)} :
               i \in 1..num_keywords}

KeywordExtensions ==
    {keyword_names[i] \o <<c>> : i \in 1..num_keywords, c \in {Ch("x"), Ch("_"), Ch("1")}}

\* Every keyword in lower and in upper case, every case variant of the
\* short ones, and words that extend or abbreviate a keyword.
WordInputs ==
    {keyword_names[i] : i \in 1..num_keywords}
        \cup {UpperCase(keyword_names[i]) : i \in 1..num_keywords}
        \cup UNION {CaseVariants(keyword_names[i]) :
                        i \in {j \in 1..num_keywords : Len(keyword_names[j]) <= MaxKeywordLen}}
        \cup {Bytes(w) : w \in {"Select", "sElEcT", "andx", "sel", "x", "_a1", "as_", "in1"}}
        \cup KeywordPrefixes \cup KeywordExtensions

SampleInputs ==
    {Bytes(w) : w \in {
        "'it''s'", "'line\\nend'", "\"a'b\"", "'a",
        "1e", "1e5", "1.5e-3", "123", "1E+5", "12.", "007",
        "->>", "#>>x", "!~*", "a<=b",
        "$12", "$a", "$", "$007", "$1x",
        "$9223372036854775807", "$9223372036854775808", "$99999999999999999999",
        "9223372036854775808",
        "a /* b */ c", "/* abc", "/* a'", "a -- b\nc", "a\n\tb",
        "'a\nb' c", "a ->> 'b' 1.5 $2", "a ! b", "a'b", "a\n\n  b /* c\nd */ e", "\n\n", "-- a\n  'b'\n!",
        "/*/ a */ b", "/* /* a */ b */", "/* a */-- b\n c", "--/*\n a",
        "/*--*/a", "/***/a", "/* a **/b", "a--b\n--c", "/* a */ /* b", "a /* b *", "a /* b */ c -- d", "select a from b",
        "(a, b);", "[1]{2}", "a.b", "1+2", "3%4^5", "a&b", "a = ?"}}

\* Inputs with a NUL byte inside a string literal and between tokens.
NulInputs ==
    {Bytes("'a") \o <<NUL>> \o Bytes("b' x"),
     Bytes("a") \o <<NUL>> \o Bytes("b"),
     Bytes("\"") \o <<NUL>> \o Bytes("\"")}

Inputs ==
    OperatorInputs \cup NumberInputs \cup StringInputs \cup CommentInputs
        \cup ByteInputs \cup NulInputs
        \cup WordInputs \cup SampleInputs

(***************************************************************************)
(* Lexer state                                                             *)
(***************************************************************************)

VARIABLES
    input,          \* lexer->input[0 .. input_len), the borrowed buffer
    pos,            \* lexer->pos
    line,           \* lexer->line
    column,         \* lexer->column
    current_token,  \* lexer->current_token
    has_current,    \* lexer->has_current
    error_msg,      \* lexer->error_msg
    heap,           \* buffers handed out by palloc
    calls,          \* the caller's record of its lexer_next_token calls
    parse_tree,     \* parser->parse_tree
    tokens,         \* the list parser_parse is building
    parse_pc,       \* where the caller stands in parser_parse
    parse_start,    \* the number of lexer calls made before that parser_parse
    lexer_alive,    \* the Lexer was created and not yet destroyed
    keys,           \* root->keys[0 .. num_keys - 1] of the engine's tree
    values,         \* root->values[0 .. num_keys - 1]
    store_call,     \* the caller's record of its last storage engine call
    last_put,       \* per key, the value of its last successful put that no
                    \* successful delete followed, NULL when there is none
    pages,          \* pool->pages: page_id, dirty, pinned, ref_count per frame
    free_list,      \* pool->free_list, all num_pages slots
    free_count,     \* pool->free_count
    pool_call,      \* the caller's record of its last buffer pool call
    held            \* the frames a get_page call returned and no later
                    \* release_page call was given

lexer_vars == <<input, pos, line, column, current_token, has_current, error_msg>>

parser_vars == <<parse_tree, tokens, parse_pc, parse_start>>

store_vars == <<keys, values, store_call, last_put>>

pool_vars == <<pages, free_list, free_count, pool_call, held>>

vars == <<input, pos, line, column, current_token, has_current, error_msg,
          heap, calls, parse_tree, tokens, parse_pc, parse_start, lexer_alive,
          keys, values, store_call, last_put,
          pages, free_list, free_count, pool_call, held>>

\* Number of lexer_next_token calls made so far.
ncalls == Len(calls)

\* Return value of the last lexer_next_token call.
ret == calls # <<>> /\ calls[Len(calls)].ret

input_len == Len(input)

\* input[i], 0-based.
InputAt(i) == input[i + 1]

\* memcpy from the start of the input instead of input + from.
InputSlice_from_start(from, len) == SubSeq(input, 1, len)

\* input[from .. from + len), as memcpy copies it.
InputSlice(from, len) == SubSeq(input, from + 1, from + len)

(***************************************************************************)
(* Character cursor.  lx is the record of pos, line and column.            *)
(***************************************************************************)

lexer_peek(lx) ==
    IF lx.pos >= input_len THEN NUL ELSE InputAt(lx.pos)

\* lexer_advance that does not start a new line at a newline byte.
lexer_advance_no_newline(lx) ==
    IF lx.pos >= input_len THEN lx
    ELSE [pos |-> lx.pos + 1, line |-> lx.line, column |-> lx.column + 1]

lexer_advance(lx) ==
    IF lx.pos >= input_len THEN lx
    ELSE LET c == InputAt(lx.pos)
         IN  IF c = Ch("\n")
                 THEN [pos |-> lx.pos + 1, line |-> lx.line + 1, column |-> 1]
                 ELSE [pos |-> lx.pos + 1, line |-> lx.line, column |-> lx.column + 1]

RECURSIVE lexer_skip_whitespace(_)
lexer_skip_whitespace(lx) ==
    IF lx.pos < input_len /\ is_space(lexer_peek(lx))
        THEN lexer_skip_whitespace(lexer_advance(lx))
        ELSE lx

\* The loop of a line comment that does not stop at the newline.
RECURSIVE skip_line_comment_loop_to_end(_)
skip_line_comment_loop_to_end(lx) ==
    IF lx.pos < input_len
        THEN skip_line_comment_loop_to_end(lexer_advance(lx))
        ELSE lx

\* The loop of a line comment: up to, not including, the newline.
RECURSIVE skip_line_comment_loop(_)
skip_line_comment_loop(lx) ==
    IF lx.pos < input_len /\ lexer_peek(lx) # Ch("\n")
        THEN skip_line_comment_loop(lexer_advance(lx))
        ELSE lx

\* The loop of a block comment: runs while two bytes are left.
RECURSIVE skip_block_comment_loop(_)
skip_block_comment_loop(lx) ==
    IF lx.pos + 1 < input_len
        THEN IF lexer_peek(lx) = Ch("*") /\ InputAt(lx.pos + 1) = Ch("/")
                 THEN lexer_advance(lexer_advance(lx))
                 ELSE skip_block_comment_loop(lexer_advance(lx))
        ELSE lx

\* The test for a comment opener at the cursor.
AtLineComment(lx) ==
    lexer_peek(lx) = Ch("-") /\ lx.pos + 1 < input_len /\ InputAt(lx.pos + 1) = Ch("-")

AtBlockComment(lx) ==
    lexer_peek(lx) = Ch("/") /\ lx.pos + 1 < input_len /\ InputAt(lx.pos + 1) = Ch("*")

\* The comment skipper that looks for the end of a block comment from the
\* second byte of the opener on.
lexer_skip_comment_from_star(lx) ==
    IF AtLineComment(lx)
        THEN skip_line_comment_loop(lexer_advance(lexer_advance(lx)))
    ELSE IF AtBlockComment(lx)
        THEN skip_block_comment_loop(lexer_advance(lx))
    ELSE lx

lexer_skip_comment(lx) ==
    IF AtLineComment(lx)
        THEN skip_line_comment_loop(lexer_advance(lexer_advance(lx)))
    ELSE IF AtBlockComment(lx)
        THEN skip_block_comment_loop(lexer_advance(lexer_advance(lx)))
    ELSE lx

\* The skip made once: whitespace, then one comment.
skip_whitespace_and_comments_once(lx) ==
    IF lx.pos < input_len
        THEN LET a == lexer_skip_whitespace(lx)
             IN  IF a.pos >= input_len THEN a
                 ELSE IF AtLineComment(a) \/ AtBlockComment(a)
                     THEN lexer_skip_comment(a)
                 ELSE a
        ELSE lx

\* The skip loop at the head of lexer_next_token.
RECURSIVE skip_whitespace_and_comments(_)
skip_whitespace_and_comments(lx) ==
    IF lx.pos < input_len
        THEN LET a == lexer_skip_whitespace(lx)
             IN  IF a.pos >= input_len THEN a
                 ELSE IF AtLineComment(a) \/ AtBlockComment(a)
                     THEN skip_whitespace_and_comments(lexer_skip_comment(a))
                 ELSE a
        ELSE lx

(***************************************************************************)
(* Literal scanners.  Each takes the cursor lx, the token slot tok and the *)
(* heap h as the driver passes them, and yields the success flag, the      *)
(* cursor, the token slot and the heap as the scanner leaves them, and the *)
(* message given to lexer_set_error (NullMsg when it is not called).       *)
(***************************************************************************)

Scanned(ok, lx, tok, h, err) ==
    [ok |-> ok, lx |-> lx, tok |-> tok, heap |-> h, err |-> err]

\* The loop with the backslash taken as an ordinary byte.
RECURSIVE scan_string_loop_no_escape(_, _)
scan_string_loop_no_escape(lx, quote) ==
    IF lx.pos < input_len
        THEN LET c == lexer_peek(lx)
             IN  IF c = quote
                     THEN IF lx.pos + 1 < input_len /\ InputAt(lx.pos + 1) = quote
                              THEN scan_string_loop_no_escape(
                                       lexer_advance(lexer_advance(lx)), quote)
                              ELSE [closed |-> TRUE, lx |-> lx]
                 ELSE scan_string_loop_no_escape(lexer_advance(lx), quote)
        ELSE [closed |-> FALSE, lx |-> lx]

\* The loop with either quote character taken as the terminator.
RECURSIVE scan_string_loop_any_quote(_, _)
scan_string_loop_any_quote(lx, quote) ==
    IF lx.pos < input_len
        THEN LET c == lexer_peek(lx)
             IN  IF c \in {Ch("'"), Ch("\"")}
                     THEN IF lx.pos + 1 < input_len /\ InputAt(lx.pos + 1) = c
                              THEN scan_string_loop_any_quote(
                                       lexer_advance(lexer_advance(lx)), quote)
                              ELSE [closed |-> TRUE, lx |-> lx]
                 ELSE IF c = Ch("\\")
                     THEN LET a == lexer_advance(lx)
                          IN  scan_string_loop_any_quote(
                                  IF a.pos < input_len THEN lexer_advance(a) ELSE a, quote)
                 ELSE scan_string_loop_any_quote(lexer_advance(lx), quote)
        ELSE [closed |-> FALSE, lx |-> lx]

\* The loop of lexer_scan_string: stops at the closing quote or at the end
\* of input.
RECURSIVE scan_string_loop(_, _)
scan_string_loop(lx, quote) ==
    IF lx.pos < input_len
        THEN LET c == lexer_peek(lx)
             IN  IF c = quote
                     THEN IF lx.pos + 1 < input_len /\ InputAt(lx.pos + 1) = quote
                              THEN scan_string_loop(lexer_advance(lexer_advance(lx)), quote)
                              ELSE [closed |-> TRUE, lx |-> lx]
                 ELSE IF c = Ch("\\")
                     THEN LET a == lexer_advance(lx)
                          IN  scan_string_loop(
                                  IF a.pos < input_len THEN lexer_advance(a) ELSE a, quote)
                 ELSE scan_string_loop(lexer_advance(lx), quote)
        ELSE [closed |-> FALSE, lx |-> lx]

lexer_scan_string(lx, tok, h) ==
    LET quote == lexer_peek(lx)
        start == lexer_advance(lx).pos
        r     == scan_string_loop(lexer_advance(lx), quote)
    IN  IF r.closed
            THEN LET len == r.lx.pos - start
                     ptr == palloc_ptr(h)
                     h1  == StoreString(palloc(h, len + 1), ptr, InputSlice(start, len))
                 IN  Scanned(TRUE, lexer_advance(r.lx),
                             [tok EXCEPT !.value = ptr, !.length = len], h1, NullMsg)
            ELSE Scanned(FALSE, r.lx, tok, h, "unterminated string literal")

RECURSIVE scan_digits(_)
scan_digits(lx) ==
    IF lx.pos < input_len /\ is_digit(lexer_peek(lx))
        THEN scan_digits(lexer_advance(lx))
        ELSE lx

\* The kind chosen on the fractional part alone.
number_type_dot_only(has_dot, has_exp) ==
    IF has_dot THEN "TOKEN_FCONST" ELSE "TOKEN_ICONST"

\* The kind lexer_scan_number gives the token.
number_type(has_dot, has_exp) ==
    IF has_dot \/ has_exp THEN "TOKEN_FCONST" ELSE "TOKEN_ICONST"

\* The number scanner that takes a `.` after the digits whatever follows it.
lexer_scan_number_any_dot(lx, tok, h) ==
    LET start   == lx.pos
        a       == scan_digits(lx)
        has_dot == a.pos < input_len /\ lexer_peek(a) = Ch(".")
        b       == IF has_dot THEN scan_digits(lexer_advance(a)) ELSE a
        has_exp == b.pos < input_len /\ lexer_peek(b) \in {Ch("e"), Ch("E")}
        c       == lexer_advance(b)
        d       == IF c.pos < input_len /\ lexer_peek(c) \in {Ch("+"), Ch("-")}
                       THEN lexer_advance(c) ELSE c
        bad_exp == has_exp /\ (d.pos >= input_len \/ ~is_digit(lexer_peek(d)))
        e       == IF has_exp THEN scan_digits(d) ELSE b
        len     == e.pos - start
        ptr     == palloc_ptr(h)
        text    == InputSlice(start, len)
        h1      == StoreString(palloc(h, len + 1), ptr, text)
    IN  IF bad_exp
            THEN Scanned(FALSE, d, tok, h, "invalid number format")
        ELSE Scanned(TRUE, e,
                     [tok EXCEPT !.value = ptr, !.length = len,
                                 !.type = number_type(has_dot, has_exp),
                                 !.data = IF has_dot \/ has_exp
                                              THEN [fval |-> strtod(text)]
                                              ELSE [ival |-> strtoll(text)]],
                     h1, NullMsg)

lexer_scan_number(lx, tok, h) ==
    LET start   == lx.pos
        a       == scan_digits(lx)
        has_dot == /\ a.pos < input_len /\ lexer_peek(a) = Ch(".")
                   /\ a.pos + 1 < input_len /\ is_digit(InputAt(a.pos + 1))
        b       == IF has_dot THEN scan_digits(lexer_advance(a)) ELSE a
        has_exp == b.pos < input_len /\ lexer_peek(b) \in {Ch("e"), Ch("E")}
        c       == lexer_advance(b)
        d       == IF c.pos < input_len /\ lexer_peek(c) \in {Ch("+"), Ch("-")}
                       THEN lexer_advance(c) ELSE c
        bad_exp == has_exp /\ (d.pos >= input_len \/ ~is_digit(lexer_peek(d)))
        e       == IF has_exp THEN scan_digits(d) ELSE b
        len     == e.pos - start
        ptr     == palloc_ptr(h)
        text    == InputSlice(start, len)
        h1      == StoreString(palloc(h, len + 1), ptr, text)
    IN  IF bad_exp
            THEN Scanned(FALSE, d, tok, h, "invalid number format")
        ELSE Scanned(TRUE, e,
                     [tok EXCEPT !.value = ptr, !.length = len,
                                 !.type = number_type(has_dot, has_exp),
                                 !.data = IF has_dot \/ has_exp
                                              THEN [fval |-> strtod(text)]
                                              ELSE [ival |-> strtoll(text)]],
                     h1, NullMsg)

RECURSIVE scan_alnum(_)
scan_alnum(lx) ==
    IF lx.pos < input_len /\ is_alnum(lexer_peek(lx))
        THEN scan_alnum(lexer_advance(lx))
        ELSE lx

lexer_scan_identifier(lx, tok, h) ==
    IF ~is_alpha(lexer_peek(lx))
        THEN Scanned(FALSE, lx, tok, h, "invalid identifier")
        ELSE LET start == lx.pos
                 a     == scan_alnum(lexer_advance(lx))
                 len   == a.pos - start
                 ptr   == palloc_ptr(h)
                 text  == InputSlice(start, len)
                 h1    == StoreString(palloc(h, len + 1), ptr, text)
             IN  Scanned(TRUE, a,
                         [tok EXCEPT !.value = ptr, !.length = len,
                                     !.type = lookup_keyword(text, len)],
                         h1, NullMsg)

\* The `$` case with strtoll applied to the text from the `$` on.
scan_parameter_from_dollar(lx1, tok1, h0, next) ==
    IF is_digit(next)
        THEN LET start == lx1.pos
                 a     == scan_digits(lx1)
                 len   == a.pos - start + 1
                 ptr   == palloc_ptr(h0)
                 text  == <<Ch("$")>> \o InputSlice(start, len - 1)
                 h1    == StoreString(palloc(pfree(h0, tok1.value), len + 1), ptr, text)
             IN  Scanned(TRUE, a,
                         [tok1 EXCEPT !.value = ptr, !.length = len,
                                      !.type = "TOKEN_PARAM",
                                      !.data = [ival |-> strtoll(text)]],
                         h1, NullMsg)
        ELSE Scanned(FALSE, lx1, tok1, h0, "invalid parameter marker")

\* The `$` case of lexer_scan_operator, entered after the 3-byte buffer ptr
\* was filled and the `$` consumed (cursor lx1).
scan_parameter(lx1, tok1, h0, next) ==
    IF is_digit(next)
        THEN LET start == lx1.pos
                 a     == scan_digits(lx1)
                 len   == a.pos - start + 1
                 ptr   == palloc_ptr(h0)
                 text  == <<Ch("$")>> \o InputSlice(start, len - 1)
                 h1    == StoreString(palloc(pfree(h0, tok1.value), len + 1), ptr, text)
             IN  Scanned(TRUE, a,
                         [tok1 EXCEPT !.value = ptr, !.length = len,
                                      !.type = "TOKEN_PARAM",
                                      !.data = [ival |-> strtoll(Tail(text))]],
                         h1, NullMsg)
        ELSE Scanned(FALSE, lx1, tok1, h0, "invalid parameter marker")

\* The third-byte test with a bound that asks for one byte too many.
third_byte_is_short(lx1, x) ==
    lx1.pos + 2 < input_len /\ InputAt(lx1.pos + 1) = x

\* The test lexer_scan_operator makes for the third byte of an operator,
\* once the first byte is consumed (cursor lx1 at the second byte).
third_byte_is(lx1, x) ==
    lx1.pos + 1 < input_len /\ InputAt(lx1.pos + 1) = x

lexer_scan_operator(lx, tok, h) ==
    LET c     == lexer_peek(lx)
        next  == IF lx.pos + 1 < input_len THEN InputAt(lx.pos + 1) ELSE NUL
        ptr   == palloc_ptr(h)
        h0    == StoreString(palloc(h, 3), ptr, <<c>>)
        tok1  == [tok EXCEPT !.value = ptr, !.length = 1]
        lx1   == lexer_advance(lx)
        third(x) == third_byte_is(lx1, x)
        One(type) ==
            Scanned(TRUE, lx1, [tok1 EXCEPT !.type = type], h0, NullMsg)
        Two(type, c2) ==
            Scanned(TRUE, lexer_advance(lx1),
                    [tok1 EXCEPT !.type = type, !.length = 2],
                    StoreString(h0, ptr, <<c, c2>>), NullMsg)
        Three(type, c2, c3) ==
            Scanned(TRUE, lexer_advance(lexer_advance(lx1)),
                    [tok1 EXCEPT !.type = type, !.length = 3],
                    StoreString(h0, ptr, <<c, c2, c3>>), NullMsg)
        Fail(msg) == Scanned(FALSE, lx1, tok1, h0, msg)
    IN  CASE c = Ch("(") -> One("TOKEN_LPAREN")
          [] c = Ch(")") -> One("TOKEN_RPAREN")
          [] c = Ch("[") -> One("TOKEN_LBRACKET")
          [] c = Ch("]") -> One("TOKEN_RBRACKET")
          [] c = Ch("{") -> One("TOKEN_LBRACE")
          [] c = Ch("}") -> One("TOKEN_RBRACE")
          [] c = Ch(",") -> One("TOKEN_COMMA")
          [] c = Ch(";") -> One("TOKEN_SEMICOLON")
          [] c = Ch(".") -> One("TOKEN_DOT")
          [] c = Ch("+") -> One("TOKEN_PLUS")
          [] c = Ch("-") ->
                IF next = Ch(">")
                    THEN IF third(Ch(">"))
                             THEN Three("TOKEN_JSON_EXTRACT_TEXT", Ch(">"), Ch(">"))
                             ELSE Two("TOKEN_JSON_EXTRACT", Ch(">"))
                    ELSE One("TOKEN_MINUS")
          [] c = Ch("*") -> One("TOKEN_MULTIPLY")
          [] c = Ch("/") -> One("TOKEN_DIVIDE")
          [] c = Ch("%") -> One("TOKEN_MODULO")
          [] c = Ch("^") -> One("TOKEN_POWER")
          [] c = Ch("<") ->
                IF next = Ch("=") THEN Two("TOKEN_LE", Ch("="))
                ELSE IF next = Ch(">") THEN Two("TOKEN_NE", Ch(">"))
                ELSE IF next = Ch("<") THEN Two("TOKEN_LSHIFT", Ch("<"))
                ELSE One("TOKEN_LT")
          [] c = Ch(">") ->
                IF next = Ch("=") THEN Two("TOKEN_GE", Ch("="))
                ELSE IF next = Ch(">") THEN Two("TOKEN_RSHIFT", Ch(">"))
                ELSE One("TOKEN_GT")
          [] c = Ch("=") -> One("TOKEN_EQ")
          [] c = Ch("!") ->
                IF next = Ch("=") THEN Two("TOKEN_NE", Ch("="))
                ELSE IF next = Ch("~")
                    THEN IF third(Ch("*"))
                             THEN Three("TOKEN_REGEX_INMATCH", Ch("~"), Ch("*"))
                             ELSE Two("TOKEN_REGEX_NMATCH", Ch("~"))
                ELSE Fail("unexpected character '!'")
          [] c = Ch("|") ->
                IF next = Ch("|") THEN Two("TOKEN_CONCAT", Ch("|"))
                ELSE One("TOKEN_BITOR")
          [] c = Ch("&") -> One("TOKEN_BITAND")
          [] c = Ch("#") ->
                IF next = Ch(">")
                    THEN IF third(Ch(">"))
                             THEN Three("TOKEN_JSON_PATH_TEXT", Ch(">"), Ch(">"))
                             ELSE Two("TOKEN_JSON_PATH", Ch(">"))
                    ELSE One("TOKEN_BITXOR")
          [] c = Ch("~") ->
                IF next = Ch("*") THEN Two("TOKEN_REGEX_IMATCH", Ch("*"))
                ELSE One("TOKEN_REGEX_MATCH")
          [] c = Ch(":") ->
                IF next = Ch(":") THEN Two("TOKEN_TYPECAST", Ch(":"))
                ELSE One("TOKEN_COLON")
          [] c = Ch("$") -> scan_parameter(lx1, tok1, h0, next)
          [] OTHER -> Fail("unexpected character")

(***************************************************************************)
(* Lexer driver                                                            *)
(***************************************************************************)

\* lexer_create: the state after construction over the buffer in.
lexer_create(in) ==
    /\ input = in
    /\ pos = 0
    /\ line = 1
    /\ column = 1
    /\ has_current = FALSE
    /\ error_msg = NullMsg
    /\ current_token = [type |-> "TOKEN_EOF", value |-> NULL, length |-> 0,
                        location |-> [line |-> 0, column |-> 0, offset |-> 0],
                        data |-> [ival |-> <<0>>]]

\* The dispatch that rejects a byte no operator starts with before the
\* operator scanner consumes it.
dispatch_reject_unconsumed(c, lx, tok, h) ==
    IF c = Ch("'") \/ c = Ch("\"")
        THEN lexer_scan_string(lx, [tok EXCEPT !.type = "TOKEN_SCONST"], h)
    ELSE IF is_digit(c) THEN lexer_scan_number(lx, tok, h)
    ELSE IF is_alpha(c) THEN lexer_scan_identifier(lx, tok, h)
    ELSE IF c \notin Alphabet("()[]{},;.+-*/%^<>=!|&#~:$")
        THEN Scanned(FALSE, lx, tok, h, "unexpected character")
    ELSE lexer_scan_operator(lx, tok, h)

\* The dispatch that leaves the kind of a string token to the scanner.
dispatch_string_kind_unset(c, lx, tok, h) ==
    IF c = Ch("'") \/ c = Ch("\"")
        THEN lexer_scan_string(lx, tok, h)
    ELSE IF is_digit(c) THEN lexer_scan_number(lx, tok, h)
    ELSE IF is_alpha(c) THEN lexer_scan_identifier(lx, tok, h)
    ELSE lexer_scan_operator(lx, tok, h)

\* The dispatch that gives the identifier scanner every byte that opens
\* neither a string nor a number.
dispatch_identifier_default(c, lx, tok, h) ==
    IF c = Ch("'") \/ c = Ch("\"")
        THEN lexer_scan_string(lx, [tok EXCEPT !.type = "TOKEN_SCONST"], h)
    ELSE IF is_digit(c) THEN lexer_scan_number(lx, tok, h)
    ELSE lexer_scan_identifier(lx, tok, h)

\* The scanner the driver dispatches to on the lookahead byte c.
dispatch(c, lx, tok, h) ==
    IF c = Ch("'") \/ c = Ch("\"")
        THEN lexer_scan_string(lx, [tok EXCEPT !.type = "TOKEN_SCONST"], h)
    ELSE IF is_digit(c) THEN lexer_scan_number(lx, tok, h)
    ELSE IF is_alpha(c) THEN lexer_scan_identifier(lx, tok, h)
    ELSE lexer_scan_operator(lx, tok, h)

\* The end-of-input branch that leaves the length of the token slot as is.
end_of_input_stale_length(lx, tok, h) ==
    Scanned(TRUE, lx, [tok EXCEPT !.type = "TOKEN_EOF", !.value = NULL], h, NullMsg)

\* The end-of-input branch that rewinds the cursor to the start of input.
end_of_input_rewind(lx, tok, h) ==
    Scanned(TRUE, [pos |-> 0, line |-> 1, column |-> 1],
            [tok EXCEPT !.type = "TOKEN_EOF", !.value = NULL, !.length = 0],
            h, NullMsg)

\* The end-of-input branch of lexer_next_token.
end_of_input(lx, tok, h) ==
    Scanned(TRUE, lx,
            [tok EXCEPT !.type = "TOKEN_EOF", !.value = NULL, !.length = 0],
            h, NullMsg)

\* The call with the location taken before whitespace and comments are
\* skipped.
next_token_result_early_location ==
    LET release == has_current /\ current_token.value # NULL
        h0   == IF release THEN pfree(heap, current_token.value) ELSE heap
        tok0 == IF release THEN [current_token EXCEPT !.value = NULL] ELSE current_token
        lx   == skip_whitespace_and_comments(
                    [pos |-> pos, line |-> line, column |-> column])
        tok1 == [tok0 EXCEPT !.location =
                    [line |-> line, column |-> column, offset |-> pos]]
    IN  IF lx.pos >= input_len
            THEN end_of_input(lx, tok1, h0)
            ELSE dispatch(lexer_peek(lx), lx, tok1, h0)

\* The whole of one lexer_next_token call, as a function of the state
\* before it: the fields of the lexer and the heap after the call, and the
\* value returned.
next_token_result ==
    LET release == has_current /\ current_token.value # NULL
        h0   == IF release THEN pfree(heap, current_token.value) ELSE heap
        tok0 == IF release THEN [current_token EXCEPT !.value = NULL] ELSE current_token
        lx   == skip_whitespace_and_comments(
                    [pos |-> pos, line |-> line, column |-> column])
        tok1 == [tok0 EXCEPT !.location =
                    [line |-> lx.line, column |-> lx.column, offset |-> lx.pos]]
    IN  IF lx.pos >= input_len
            THEN end_of_input(lx, tok1, h0)
            ELSE dispatch(lexer_peek(lx), lx, tok1, h0)

\* An error slot that every call overwrites, successful or not.
lexer_set_error_every_call(old, msg) == msg

\* The error message after a call that gave msg to lexer_set_error (NullMsg:
\* lexer_set_error was not called).
lexer_set_error(old, msg) == IF msg # NullMsg THEN msg ELSE old

\* The first `length` bytes at the value of the token tok, in the heap h.
token_text(h, tok) ==
    IF tok.value = NULL THEN <<>>
    ELSE [i \in 1..tok.length |-> ByteAt(h[tok.value].bytes, i - 1)]

\* The driver that puts the cursor back at the start of a token it failed
\* to scan.
lexer_next_token_rollback ==
    /\ ncalls < MaxCalls
    /\ \E r \in {next_token_result} :
           /\ pos' = (IF r.ok THEN r.lx.pos ELSE r.tok.location.offset)
           /\ line' = (IF r.ok THEN r.lx.line ELSE r.tok.location.line)
           /\ column' = (IF r.ok THEN r.lx.column ELSE r.tok.location.column)
           /\ current_token' = r.tok
           /\ heap' = r.heap
           /\ error_msg' = lexer_set_error(error_msg, r.err)
           /\ has_current' = r.ok
           /\ calls' = Append(calls, [ret |-> r.ok,
                                      offset |-> r.tok.location.offset,
                                      pos |-> r.lx.pos,
                                      token |-> r.tok,
                                      text |-> token_text(r.heap, r.tok)])
    /\ UNCHANGED input

\* The driver with has_current set after every call.
lexer_next_token_always_current ==
    /\ ncalls < MaxCalls
    /\ \E r \in {next_token_result} :
           /\ pos' = r.lx.pos
           /\ line' = r.lx.line
           /\ column' = r.lx.column
           /\ current_token' = r.tok
           /\ heap' = r.heap
           /\ error_msg' = lexer_set_error(error_msg, r.err)
           /\ has_current' = TRUE
           /\ calls' = Append(calls, [ret |-> r.ok,
                                      offset |-> r.tok.location.offset,
                                      pos |-> r.lx.pos,
                                      token |-> r.tok,
                                      text |-> token_text(r.heap, r.tok)])
    /\ UNCHANGED input

lexer_next_token ==
    /\ ncalls < MaxCalls
    /\ \E r \in {next_token_result} :
           /\ pos' = r.lx.pos
           /\ line' = r.lx.line
           /\ column' = r.lx.column
           /\ current_token' = r.tok
           /\ heap' = r.heap
           /\ error_msg' = lexer_set_error(error_msg, r.err)
           /\ has_current' = r.ok
           /\ calls' = Append(calls, [ret |-> r.ok,
                                      offset |-> r.tok.location.offset,
                                      pos |-> r.lx.pos,
                                      token |-> r.tok,
                                      text |-> token_text(r.heap, r.tok)])
    /\ UNCHANGED input

\* lexer_current_token and lexer_error, as the caller reads them.
\* lexer_current_token yields a pointer: <<t>> points to the slot holding t,
\* <<>> is the null pointer.
lexer_current_token == IF has_current THEN <<current_token>> ELSE <<>>

lexer_error == error_msg

(***************************************************************************)
(* Storage engine (storage_engine.c) over the one-node tree of btree.c.    *)
(* keys and values hold the num_keys slots in use; keys and values are C   *)
(* strings shorter than their slots (256 and 1024 bytes).                  *)
(***************************************************************************)

MAX_KEYS == 255

\* A NULL char pointer, as a key or value argument and as the result of a
\* search: told apart from every string, which holds bytes only.
NullString == <<-1>>

\* The keys and values the caller passes, and the entry it fills the store
\* with once MaxVaried slots are in use.
MaxVaried == 2

StoreKeys == {Bytes("a"), Bytes("b")}

StoreValues == {Bytes("1"), Bytes("2")}

FillKey == Bytes("b")

FillValue == Bytes("2")

KeyArgs == StoreKeys \cup {NullString}

ValueArgs == StoreValues \cup {NullString}

num_keys == Len(keys)

\* strcpy and strdup copy the bytes before the first NUL.
strcpy(src) == c_string(src)

strdup(src) == c_string(src)

strcmp(a, b) == IF c_string(a) = c_string(b) THEN 0 ELSE 1

btree_create == keys = <<>> /\ values = <<>>

StoreResult(r, ks, vs) == [ret |-> r, keys |-> ks, values |-> vs]

\* btree_insert that takes one entry more than the node holds.
btree_insert_one_more(key, value) ==
    IF key = NullString \/ value = NullString THEN StoreResult(-1, keys, values)
    ELSE IF num_keys <= MAX_KEYS
        THEN StoreResult(0, Append(keys, strcpy(key)), Append(values, strcpy(value)))
        ELSE StoreResult(-1, keys, values)

btree_insert(key, value) ==
    IF key = NullString \/ value = NullString THEN StoreResult(-1, keys, values)
    ELSE IF num_keys < MAX_KEYS
        THEN StoreResult(0, Append(keys, strcpy(key)), Append(values, strcpy(value)))
        ELSE StoreResult(-1, keys, values)

\* The slots whose key compares equal to key.
matches(key) == {i \in 1..num_keys : strcmp(keys[i], key) = 0}

\* The first of them: where the loops of btree_search and btree_delete stop.
first_match(key) == CHOOSE i \in matches(key) : \A j \in matches(key) : i <= j

btree_search(key) ==
    IF key = NullString THEN NullString
    ELSE IF matches(key) # {} THEN strdup(values[first_match(key)])
    ELSE NullString

\* The shift of the slots after slot i down by one.
shift_down(slots, i) == SubSeq(slots, 1, i - 1) \o SubSeq(slots, i + 1, Len(slots))

btree_delete(key) ==
    IF key = NullString THEN StoreResult(-1, keys, values)
    ELSE IF matches(key) # {}
        THEN StoreResult(0, shift_down(keys, first_match(key)),
                            shift_down(values, first_match(key)))
        ELSE StoreResult(-1, keys, values)

NoCall == [op |-> "none", key |-> NullString, value |-> NullString, ret |-> 0]

storage_engine_init ==
    /\ btree_create
    /\ store_call = NoCall
    /\ last_put = [k \in StoreKeys |-> NullString]


(***************************************************************************)
(* Buffer pool (buffer_pool.c).  A page pointer is the C index of its      *)
(* frame plus one, NULL being 0; free_list holds C indexes.  A pool of no  *)
(* frames stands for the pool that could not be created as well: neither   *)
(* hands out a frame.                                                      *)
(***************************************************************************)

PAGE_SIZE == 4096

MaxPages == 3

MaxPageId == 1

MaxReleases == 3

PoolSizes == {n * PAGE_SIZE + r : n \in 0..MaxPages, r \in {0, PAGE_SIZE - 1}}

PageIds == 0..MaxPageId

num_pages == Len(pages)

\* &pool->pages[i], and page - pool->pages.
page_at(i) == i + 1

frame_index(page) == page - 1

\* pool->pages[i] and pool->free_list[i], C indexes.
frame(i) == pages[i + 1]

free_slot(i) == free_list[i + 1]

PagePointers == {page_at(i) : i \in 0..(num_pages - 1)} \cup {NULL}

\* A frame as calloc leaves it.
zero_page == [page_id |-> 0, dirty |-> FALSE, pinned |-> FALSE, ref_count |-> 0]

NoPoolCall == [op |-> "none", page_id |-> 0, page |-> NULL, ret |-> NULL]

buffer_pool_create(pool_size) ==
    /\ pages = [i \in 1..(pool_size \div PAGE_SIZE) |-> zero_page]
    /\ free_list = [i \in 1..(pool_size \div PAGE_SIZE) |-> i - 1]
    /\ free_count = pool_size \div PAGE_SIZE
    /\ pool_call = NoPoolCall
    /\ held = {}

PoolResult(r, ps, fl, fc) ==
    [ret |-> r, pages |-> ps, free_list |-> fl, free_count |-> fc]

\* buffer_pool_get_page that takes the frame in the first slot of the list.
buffer_pool_get_page_first_slot(page_id) ==
    IF free_count = 0 THEN PoolResult(NULL, pages, free_list, free_count)
    ELSE LET free_idx == free_slot(0)
         IN  PoolResult(page_at(free_idx),
                        [pages EXCEPT ![free_idx + 1] =
                            [page_id |-> page_id, dirty |-> FALSE,
                             pinned |-> TRUE, ref_count |-> 1]],
                        free_list, free_count - 1)

buffer_pool_get_page(page_id) ==
    IF free_count = 0 THEN PoolResult(NULL, pages, free_list, free_count)
    ELSE LET free_idx == free_slot(free_count - 1)
         IN  PoolResult(page_at(free_idx),
                        [pages EXCEPT ![free_idx + 1] =
                            [page_id |-> page_id, dirty |-> FALSE,
                             pinned |-> TRUE, ref_count |-> 1]],
                        free_list, free_count - 1)

\* buffer_pool_release_page that frees the frame whenever the count is not
\* positive after the decrement.
buffer_pool_release_page_not_positive(page) ==
    IF page = NULL THEN PoolResult(NULL, pages, free_list, free_count)
    ELSE LET i == frame_index(page)
             n == frame(i).ref_count - 1
         IN  IF n <= 0
                 THEN PoolResult(NULL,
                                 [pages EXCEPT ![i + 1].ref_count = n,
                                               ![i + 1].pinned = FALSE],
                                 IF free_count < num_pages
                                     THEN [free_list EXCEPT ![free_count + 1] = i]
                                     ELSE free_list,
                                 free_count + 1)
                 ELSE PoolResult(NULL, [pages EXCEPT ![i + 1].ref_count = n],
                                 free_list, free_count)

buffer_pool_release_page(page) ==
    IF page = NULL THEN PoolResult(NULL, pages, free_list, free_count)
    ELSE LET i == frame_index(page)
             n == frame(i).ref_count - 1
         IN  IF n = 0
                 THEN PoolResult(NULL,
                                 [pages EXCEPT ![i + 1].ref_count = n,
                                               ![i + 1].pinned = FALSE],
                                 [free_list EXCEPT ![free_count + 1] = i],
                                 free_count + 1)
                 ELSE PoolResult(NULL, [pages EXCEPT ![i + 1].ref_count = n],
                                 free_list, free_count)

(***************************************************************************)
(* Reads of the input buffer.  For each routine, the set of offsets i at   *)
(* which it evaluates input[i] when entered with the cursor lx; the        *)
(* cursors are those of the routines above.                                *)
(***************************************************************************)

\* lexer_peek and lexer_advance read input[pos], and nothing at the end of
\* input.
cursor_reads(lx) == IF lx.pos >= input_len THEN {} ELSE {lx.pos}

\* The lookahead `pos + 1 < input_len && input[pos + 1] == ...`.
ahead_reads(lx) == IF lx.pos + 1 < input_len THEN {lx.pos + 1} ELSE {}

\* memcpy(dst, input + start, len).
memcpy_reads(start, len) == start..(start + len - 1)

RECURSIVE lexer_skip_whitespace_reads(_)
lexer_skip_whitespace_reads(lx) ==
    IF lx.pos < input_len
        THEN cursor_reads(lx) \cup
             (IF is_space(lexer_peek(lx))
                  THEN lexer_skip_whitespace_reads(lexer_advance(lx))
                  ELSE {})
        ELSE {}

RECURSIVE skip_line_comment_reads(_)
skip_line_comment_reads(lx) ==
    IF lx.pos < input_len
        THEN cursor_reads(lx) \cup
             (IF lexer_peek(lx) # Ch("\n")
                  THEN skip_line_comment_reads(lexer_advance(lx))
                  ELSE {})
        ELSE {}

\* The block comment loop that runs while one byte is left.
RECURSIVE skip_block_comment_reads_one_left(_)
skip_block_comment_reads_one_left(lx) ==
    IF lx.pos < input_len
        THEN cursor_reads(lx) \cup
             (IF lexer_peek(lx) = Ch("*") THEN {lx.pos + 1} ELSE {}) \cup
             (IF lexer_peek(lx) = Ch("*") /\ lx.pos + 1 < input_len
                                          /\ InputAt(lx.pos + 1) = Ch("/")
                  THEN cursor_reads(lexer_advance(lx))
                  ELSE skip_block_comment_reads_one_left(lexer_advance(lx)))
        ELSE {}

\* The block comment loop: input[pos + 1] is read under the loop condition
\* alone.
RECURSIVE skip_block_comment_reads(_)
skip_block_comment_reads(lx) ==
    IF lx.pos + 1 < input_len
        THEN cursor_reads(lx) \cup
             (IF lexer_peek(lx) = Ch("*") THEN {lx.pos + 1} ELSE {}) \cup
             (IF lexer_peek(lx) = Ch("*") /\ InputAt(lx.pos + 1) = Ch("/")
                  THEN cursor_reads(lexer_advance(lx))
                  ELSE skip_block_comment_reads(lexer_advance(lx)))
        ELSE {}

\* The two comment opener tests: the second byte is read when the first
\* matches.
comment_test_reads(lx) ==
    cursor_reads(lx) \cup
    (IF lexer_peek(lx) = Ch("-") THEN ahead_reads(lx) ELSE {}) \cup
    (IF lexer_peek(lx) = Ch("/") THEN ahead_reads(lx) ELSE {})

lexer_skip_comment_reads(lx) ==
    comment_test_reads(lx) \cup
    (IF AtLineComment(lx)
         THEN cursor_reads(lx) \cup cursor_reads(lexer_advance(lx)) \cup
              skip_line_comment_reads(lexer_advance(lexer_advance(lx)))
     ELSE IF AtBlockComment(lx)
         THEN cursor_reads(lx) \cup cursor_reads(lexer_advance(lx)) \cup
              skip_block_comment_reads(lexer_advance(lexer_advance(lx)))
     ELSE {})

RECURSIVE skip_whitespace_and_comments_reads(_)
skip_whitespace_and_comments_reads(lx) ==
    IF lx.pos < input_len
        THEN LET a == lexer_skip_whitespace(lx)
             IN  lexer_skip_whitespace_reads(lx) \cup
                 (IF a.pos >= input_len THEN {}
                  ELSE comment_test_reads(a) \cup
                       (IF AtLineComment(a) \/ AtBlockComment(a)
                            THEN lexer_skip_comment_reads(a) \cup
                                 skip_whitespace_and_comments_reads(lexer_skip_comment(a))
                            ELSE {}))
        ELSE {}

RECURSIVE scan_string_loop_reads(_, _)
scan_string_loop_reads(lx, quote) ==
    IF lx.pos < input_len
        THEN LET c == lexer_peek(lx)
             IN  cursor_reads(lx) \cup
                 (IF c = quote
                      THEN ahead_reads(lx) \cup
                           (IF lx.pos + 1 < input_len /\ InputAt(lx.pos + 1) = quote
                                THEN cursor_reads(lexer_advance(lx)) \cup
                                     scan_string_loop_reads(
                                         lexer_advance(lexer_advance(lx)), quote)
                                ELSE {})
                  ELSE IF c = Ch("\\")
                      THEN LET a == lexer_advance(lx)
                           IN  cursor_reads(a) \cup
                               scan_string_loop_reads(
                                   IF a.pos < input_len THEN lexer_advance(a) ELSE a,
                                   quote)
                  ELSE scan_string_loop_reads(lexer_advance(lx), quote))
        ELSE {}

lexer_scan_string_reads(lx) ==
    LET quote == lexer_peek(lx)
        start == lexer_advance(lx).pos
        r     == scan_string_loop(lexer_advance(lx), quote)
    IN  cursor_reads(lx) \cup scan_string_loop_reads(lexer_advance(lx), quote) \cup
        (IF r.closed
             THEN memcpy_reads(start, r.lx.pos - start) \cup cursor_reads(r.lx)
             ELSE {})

RECURSIVE scan_digits_reads(_)
scan_digits_reads(lx) ==
    IF lx.pos < input_len
        THEN cursor_reads(lx) \cup
             (IF is_digit(lexer_peek(lx))
                  THEN scan_digits_reads(lexer_advance(lx))
                  ELSE {})
        ELSE {}

lexer_scan_number_reads(lx) ==
    LET start   == lx.pos
        a       == scan_digits(lx)
        dot     == a.pos < input_len /\ lexer_peek(a) = Ch(".")
        has_dot == /\ dot
                   /\ a.pos + 1 < input_len /\ is_digit(InputAt(a.pos + 1))
        b       == IF has_dot THEN scan_digits(lexer_advance(a)) ELSE a
        has_exp == b.pos < input_len /\ lexer_peek(b) \in {Ch("e"), Ch("E")}
        c       == lexer_advance(b)
        d       == IF c.pos < input_len /\ lexer_peek(c) \in {Ch("+"), Ch("-")}
                       THEN lexer_advance(c) ELSE c
        bad_exp == has_exp /\ (d.pos >= input_len \/ ~is_digit(lexer_peek(d)))
        e       == IF has_exp THEN scan_digits(d) ELSE b
    IN  scan_digits_reads(lx) \cup cursor_reads(a) \cup
        (IF dot THEN ahead_reads(a) ELSE {}) \cup
        (IF has_dot THEN scan_digits_reads(lexer_advance(a)) ELSE {}) \cup
        cursor_reads(b) \cup
        (IF has_exp THEN cursor_reads(c) \cup cursor_reads(d) \cup scan_digits_reads(d)
                    ELSE {}) \cup
        (IF bad_exp THEN {} ELSE memcpy_reads(start, e.pos - start))

RECURSIVE scan_alnum_reads(_)
scan_alnum_reads(lx) ==
    IF lx.pos < input_len
        THEN cursor_reads(lx) \cup
             (IF is_alnum(lexer_peek(lx))
                  THEN scan_alnum_reads(lexer_advance(lx))
                  ELSE {})
        ELSE {}

lexer_scan_identifier_reads(lx) ==
    cursor_reads(lx) \cup
    (IF ~is_alpha(lexer_peek(lx)) THEN {}
     ELSE LET a == scan_alnum(lexer_advance(lx))
          IN  scan_alnum_reads(lexer_advance(lx)) \cup
              memcpy_reads(lx.pos, a.pos - lx.pos))

\* The third-byte test of the three operators that have one.  The second
\* byte of an operator is read as `next`, at the offset ahead_reads gives,
\* and once more when lexer_advance consumes it.
third_byte_reads(lx1) == ahead_reads(lx1)

lexer_scan_operator_reads(lx) ==
    LET c     == lexer_peek(lx)
        next  == IF lx.pos + 1 < input_len THEN InputAt(lx.pos + 1) ELSE NUL
        lx1   == lexer_advance(lx)
        long  == \/ c \in {Ch("-"), Ch("#")} /\ next = Ch(">")
                 \/ c = Ch("!") /\ next = Ch("~")
        third == IF c = Ch("!") THEN Ch("*") ELSE Ch(">")
        a     == scan_digits(lx1)
    IN  cursor_reads(lx) \cup ahead_reads(lx) \cup
        (IF long THEN third_byte_reads(lx1) ELSE {}) \cup
        (IF long /\ third_byte_is(lx1, third)
             THEN cursor_reads(lexer_advance(lx1)) ELSE {}) \cup
        (IF c = Ch("$") /\ is_digit(next)
             THEN scan_digits_reads(lx1) \cup memcpy_reads(lx1.pos, a.pos - lx1.pos)
             ELSE {})

dispatch_reads(c, lx) ==
    IF c = Ch("'") \/ c = Ch("\"") THEN lexer_scan_string_reads(lx)
    ELSE IF is_digit(c) THEN lexer_scan_number_reads(lx)
    ELSE IF is_alpha(c) THEN lexer_scan_identifier_reads(lx)
    ELSE lexer_scan_operator_reads(lx)

\* The reads of one lexer_next_token call made in the current state.
lexer_next_token_reads ==
    LET lx0 == [pos |-> pos, line |-> line, column |-> column]
        lx  == skip_whitespace_and_comments(lx0)
    IN  skip_whitespace_and_comments_reads(lx0) \cup
        (IF lx.pos >= input_len THEN {}
         ELSE cursor_reads(lx) \cup dispatch_reads(lexer_peek(lx), lx))

(***************************************************************************)
(* Specification: a caller creates a lexer over one input and calls        *)
(* lexer_next_token up to MaxCalls times.                                  *)
(***************************************************************************)

Init ==
    /\ \E in \in Inputs : lexer_create(in)
    /\ heap = <<>>
    /\ calls = <<>>
    /\ parse_tree = <<>>
    /\ tokens = <<>>
    /\ parse_pc = "none"
    /\ parse_start = 0
    /\ lexer_alive = TRUE
    /\ storage_engine_init
    /\ buffer_pool_create(0)

Next == lexer_next_token /\ UNCHANGED <<parser_vars, lexer_alive, store_vars, pool_vars>>

Spec == Init /\ [][Next]_vars

(***************************************************************************)
(* Lifetime of a lexer: a caller creates it, calls lexer_next_token up to  *)
(* MaxCalls times and destroys it, after which it makes no further call.   *)
(***************************************************************************)

\* lexer_destroy: frees the text of the current token, then the lexer.
lexer_destroy ==
    /\ lexer_alive
    /\ heap' = pfree(heap, current_token.value)
    /\ lexer_alive' = FALSE
    /\ UNCHANGED <<lexer_vars, calls, parser_vars, store_vars, pool_vars>>

\* A lexer_next_token call on a lexer that was not destroyed.
lexer_call ==
    /\ lexer_alive
    /\ lexer_next_token
    /\ UNCHANGED <<parser_vars, lexer_alive, store_vars, pool_vars>>

LifetimeNext == lexer_call \/ lexer_destroy

LifetimeSpec == Init /\ [][LifetimeNext]_vars

(***************************************************************************)
(* Parser.  parser_parse runs as a loop over lexer_next_token; parse_pc is *)
(* the place of the caller in it: "idle" outside parser_parse, "loop" at   *)
(* the head of the while loop, "copy" after a call that returned a token   *)
(* other than end-of-input, "return" after the loop.  A token copy in the  *)
(* list is the Token record, its value pointing to the copy's own buffer.  *)
(***************************************************************************)

\* parser->error_msg: set to NULL by parser_create and assigned nowhere.
parser_error_msg == NullMsg

\* parser_create: a parser over a new lexer on the buffer in.
parser_create(in) ==
    /\ lexer_create(in)
    /\ parse_tree = <<>>
    /\ parse_pc = "idle"

\* make_list: the empty list.
make_list == <<>>

list_append(list, node) == Append(list, node)

list_length(list) == Len(list)

\* Entry of parser_parse, up to the head of the loop.
parser_parse_enter ==
    /\ parse_pc = "idle"
    /\ tokens' = make_list
    /\ parse_pc' = "loop"
    /\ parse_start' = ncalls
    /\ UNCHANGED <<lexer_vars, heap, calls, parse_tree, lexer_alive, store_vars, pool_vars>>

\* The loop condition and the two breaks.
parser_parse_loop ==
    /\ parse_pc = "loop"
    /\ lexer_next_token
    /\ parse_pc' = IF ret' /\ lexer_current_token' # <<>>
                        /\ current_token'.type # "TOKEN_EOF"
                        THEN "copy" ELSE "return"
    /\ UNCHANGED <<parse_tree, tokens, parse_start, lexer_alive, store_vars, pool_vars>>

\* The loop body: the copy of the token and of its text, appended.
parser_parse_copy ==
    /\ parse_pc = "copy"
    /\ IF current_token.value # NULL
           THEN /\ heap' = pstrdup(heap, current_token.value)
                /\ tokens' = list_append(tokens,
                                 [current_token EXCEPT !.value = palloc_ptr(heap)])
           ELSE /\ heap' = heap
                /\ tokens' = list_append(tokens, current_token)
    /\ parse_pc' = "loop"
    /\ UNCHANGED <<lexer_vars, calls, parse_tree, parse_start, lexer_alive, store_vars, pool_vars>>

\* After the loop: the list is stored in the parser and returned.
parser_parse_return ==
    /\ parse_pc = "return"
    /\ parse_tree' = <<tokens>>
    /\ parse_pc' = "idle"
    /\ UNCHANGED <<lexer_vars, heap, calls, tokens, parse_start, lexer_alive, store_vars, pool_vars>>

parser_error == IF parser_error_msg # NullMsg THEN parser_error_msg ELSE lexer_error

ParserInit ==
    /\ \E in \in Inputs : parser_create(in)
    /\ heap = <<>>
    /\ calls = <<>>
    /\ tokens = <<>>
    /\ parse_start = 0
    /\ lexer_alive = TRUE
    /\ storage_engine_init
    /\ buffer_pool_create(0)

ParserNext ==
    \/ parser_parse_enter
    \/ parser_parse_loop
    \/ parser_parse_copy
    \/ parser_parse_return

ParserSpec == ParserInit /\ [][ParserNext]_vars

(***************************************************************************)
(* The storage engine under a caller that puts, gets and deletes.  The     *)
(* caller passes every key and value while fewer than MaxVaried slots are  *)
(* in use; above that it puts the fill entry only, and between MaxVaried   *)
(* and MAX_KEYS - 1 slots it does nothing else, so that the full store is  *)
(* reached.                                                                *)
(***************************************************************************)

Filling == MaxVaried < num_keys /\ num_keys < MAX_KEYS - 1

storage_engine_put ==
    \E key \in KeyArgs, value \in ValueArgs :
        /\ \/ num_keys < MaxVaried
           \/ ~Filling /\ key \in {FillKey, NullString} /\ value \in {FillValue, NullString}
           \/ key = FillKey /\ value = FillValue
        /\ \E r \in {btree_insert(key, value)} :
               /\ keys' = r.keys
               /\ values' = r.values
               /\ store_call' = [op |-> "put", key |-> key, value |-> value,
                                 ret |-> r.ret]
               /\ last_put' = IF r.ret = 0
                                  THEN [last_put EXCEPT ![strcpy(key)] = strcpy(value)]
                                  ELSE last_put
        /\ UNCHANGED <<lexer_vars, heap, calls, parser_vars, lexer_alive, pool_vars>>

storage_engine_get ==
    \E key \in KeyArgs :
        /\ ~Filling
        /\ store_call' = [op |-> "get", key |-> key, value |-> NullString,
                          ret |-> btree_search(key)]
        /\ UNCHANGED <<keys, values, last_put>>
        /\ UNCHANGED <<lexer_vars, heap, calls, parser_vars, lexer_alive, pool_vars>>

storage_engine_delete ==
    \E key \in KeyArgs :
        /\ ~Filling
        /\ \E r \in {btree_delete(key)} :
               /\ keys' = r.keys
               /\ values' = r.values
               /\ store_call' = [op |-> "delete", key |-> key, value |-> NullString,
                                 ret |-> r.ret]
               /\ last_put' = IF r.ret = 0
                                  THEN [last_put EXCEPT ![strcpy(key)] = NullString]
                                  ELSE last_put
        /\ UNCHANGED <<lexer_vars, heap, calls, parser_vars, lexer_alive, pool_vars>>

StoreInit ==
    /\ lexer_create(<<>>)
    /\ heap = <<>>
    /\ calls = <<>>
    /\ parse_tree = <<>>
    /\ tokens = <<>>
    /\ parse_pc = "none"
    /\ parse_start = 0
    /\ lexer_alive = TRUE
    /\ storage_engine_init
    /\ buffer_pool_create(0)

StoreNext ==
    \/ storage_engine_put
    \/ storage_engine_get
    \/ storage_engine_delete

StoreSpec == StoreInit /\ [][StoreNext]_vars

(***************************************************************************)
(* The buffer pool under a caller that gets pages and releases pages of    *)
(* the pool, a page at most MaxReleases times more often than it was       *)
(* handed out.                                                             *)
(***************************************************************************)

get_page ==
    \E page_id \in PageIds :
        \E r \in {buffer_pool_get_page(page_id)} :
            /\ pages' = r.pages
            /\ free_list' = r.free_list
            /\ free_count' = r.free_count
            /\ pool_call' = [op |-> "get", page_id |-> page_id, page |-> NULL,
                             ret |-> r.ret]
            /\ held' = IF r.ret = NULL THEN held ELSE held \cup {r.ret}
            /\ UNCHANGED <<lexer_vars, heap, calls, parser_vars, lexer_alive, store_vars>>

release_page ==
    \E page \in PagePointers :
        /\ page # NULL => frame(frame_index(page)).ref_count > 1 - MaxReleases
        /\ \E r \in {buffer_pool_release_page(page)} :
               /\ pages' = r.pages
               /\ free_list' = r.free_list
               /\ free_count' = r.free_count
               /\ pool_call' = [op |-> "release", page_id |-> 0, page |-> page,
                                ret |-> NULL]
               /\ held' = held \ {page}
               /\ UNCHANGED <<lexer_vars, heap, calls, parser_vars, lexer_alive, store_vars>>

PoolInit ==
    /\ lexer_create(<<>>)
    /\ heap = <<>>
    /\ calls = <<>>
    /\ parse_tree = <<>>
    /\ tokens = <<>>
    /\ parse_pc = "none"
    /\ parse_start = 0
    /\ lexer_alive = TRUE
    /\ storage_engine_init
    /\ \E pool_size \in PoolSizes : buffer_pool_create(pool_size)

PoolNext == get_page \/ release_page

PoolSpec == PoolInit /\ [][PoolNext]_vars

(***************************************************************************)
(* Vocabulary of the properties                                            *)
(***************************************************************************)

\* The text of the current token: value, of length `length`.
TokenText ==
    IF current_token.value = NULL THEN <<>>
    ELSE [i \in 1..current_token.length |->
              ByteAt(heap[current_token.value].bytes, i - 1)]

\* The input bytes in [from, from + len).
InputBytes(from, len) == [i \in 1..len |-> input[from + i]]

\* The last call returned a token other than the end-of-input token.
ReturnedToken == ret /\ has_current /\ current_token.type # "TOKEN_EOF"

\* The byte at which the token of the last call starts.
StartByte ==
    IF current_token.location.offset < input_len
        THEN InputAt(current_token.location.offset) ELSE NUL

LowerCase(w) == [i \in 1..Len(w) |-> tolower(w[i])]

\* The input at offset o begins with the bytes w.
BeginsWith(o, w) ==
    o + Len(w) <= input_len /\ InputBytes(o, Len(w)) = w

(***************************************************************************)
(* Properties                                                              *)
(***************************************************************************)

\* C1: a word that is a case variant of a spelling of the keyword table,
\* scanned as a whole lexeme, gets the kind stored with that spelling and
\* never TOKEN_IDENT.
C1_KeywordAnyCase ==
    \A i \in 1..num_keywords :
        (ReturnedToken /\ is_alpha(StartByte)
            /\ LowerCase(TokenText) = keyword_names[i])
        => current_token.type = keywords[i].token

UnterminatedBlockCommentAt(o) ==
    /\ o + 1 < input_len
    /\ InputAt(o) = Ch("/") /\ InputAt(o + 1) = Ch("*")
    /\ \A k \in (o + 2)..(input_len - 2) :
           ~(InputAt(k) = Ch("*") /\ InputAt(k + 1) = Ch("/"))

\* C3: a call that meets an unterminated block comment (only whitespace
\* lies between the cursor and the opener) consumes all remaining input,
\* returns the end-of-input token and sets no error.
C3_UnterminatedCommentSwallowed ==
    [][\A o \in pos..(input_len - 1) :
          (/\ UnterminatedBlockCommentAt(o)
           /\ \A k \in pos..(o - 1) : is_space(InputAt(k)))
          => (/\ pos' = input_len
              /\ ret'
              /\ current_token'.type = "TOKEN_EOF"
              /\ error_msg' = error_msg)]_vars

\* The string s with every doubled q replaced by a single q.
RECURSIVE Undoubled(_, _)
Undoubled(s, q) ==
    IF s = <<>> THEN <<>>
    ELSE IF Len(s) >= 2 /\ s[1] = q /\ s[2] = q
        THEN <<q>> \o Undoubled(SubSeq(s, 3, Len(s)), q)
    ELSE <<s[1]>> \o Undoubled(Tail(s), q)

\* C4: the value of a string token is the text between its delimiters with
\* every doubled delimiter replaced by a single one (literals without a
\* backslash).
C4_DoubledDelimiterDecoded ==
    (ReturnedToken /\ current_token.type = "TOKEN_SCONST")
    => LET raw == InputBytes(current_token.location.offset + 1,
                             pos - current_token.location.offset - 2)
       IN  (\A i \in 1..Len(raw) : raw[i] # Ch("\\"))
               => TokenText = Undoubled(raw, StartByte)

\* The multi-character operators and their kinds.
MultiCharOperators == <<
    [op |-> "->>", kind |-> "TOKEN_JSON_EXTRACT_TEXT"],
    [op |-> "#>>", kind |-> "TOKEN_JSON_PATH_TEXT"],
    [op |-> "->",  kind |-> "TOKEN_JSON_EXTRACT"],
    [op |-> "#>",  kind |-> "TOKEN_JSON_PATH"],
    [op |-> "<=",  kind |-> "TOKEN_LE"],
    [op |-> "<>",  kind |-> "TOKEN_NE"],
    [op |-> "<<",  kind |-> "TOKEN_LSHIFT"],
    [op |-> ">=",  kind |-> "TOKEN_GE"],
    [op |-> ">>",  kind |-> "TOKEN_RSHIFT"],
    [op |-> "!=",  kind |-> "TOKEN_NE"],
    [op |-> "!~*", kind |-> "TOKEN_REGEX_INMATCH"],
    [op |-> "!~",  kind |-> "TOKEN_REGEX_NMATCH"],
    [op |-> "||",  kind |-> "TOKEN_CONCAT"],
    [op |-> "~*",  kind |-> "TOKEN_REGEX_IMATCH"],
    [op |-> "::",  kind |-> "TOKEN_TYPECAST"] >>

MultiCharOperatorBytes ==
    [i \in 1..Len(MultiCharOperators) |-> Bytes(MultiCharOperators[i].op)]

\* C5: when the input at a token start begins with a multi-character
\* operator, the call returns one token of the kind of the longest such
\* operator matching there, whose text is that operator, and the cursor
\* ends right after it.
C5_GreedyOperators ==
    ncalls > 0 =>
        LET o == current_token.location.offset
            M == {i \in 1..Len(MultiCharOperators) :
                      BeginsWith(o, MultiCharOperatorBytes[i])}
        IN  M # {} =>
                LET best == CHOOSE i \in M :
                                \A j \in M : Len(MultiCharOperatorBytes[j])
                                                 <= Len(MultiCharOperatorBytes[i])
                IN  /\ ReturnedToken
                    /\ current_token.type = MultiCharOperators[best].kind
                    /\ TokenText = MultiCharOperatorBytes[best]
                    /\ pos = o + Len(MultiCharOperatorBytes[best])

C5_Witness ==
    /\ ReturnedToken
    /\ current_token.type = "TOKEN_JSON_EXTRACT_TEXT"
    /\ TokenText = Bytes("->>")
    /\ pos = input_len

\* The end of the maximal run of digits that starts at offset i.
DigitRunEnd(i) ==
    CHOOSE j \in i..input_len :
        /\ \A k \in i..(j - 1) : is_digit(InputAt(k))
        /\ j = input_len \/ ~is_digit(InputAt(j))

\* C6: after the digits and the optional fraction, an `e` or `E` is
\* consumed with an optional sign and the call fails with the
\* invalid-number-format error unless a digit follows; a successful call
\* gives TOKEN_ICONST exactly when neither a fraction nor an exponent was
\* consumed, TOKEN_FCONST otherwise; `123` has the integer value 123.
C6_NumberScan ==
    (ncalls > 0 /\ is_digit(StartByte)) =>
        LET o    == current_token.location.offset
            a    == DigitRunEnd(o)
            frac == /\ a + 1 < input_len
                    /\ InputAt(a) = Ch(".") /\ is_digit(InputAt(a + 1))
            b    == IF frac THEN DigitRunEnd(a + 1) ELSE a
            exp  == b < input_len /\ InputAt(b) \in {Ch("e"), Ch("E")}
            sign == b + 1 < input_len /\ InputAt(b + 1) \in {Ch("+"), Ch("-")}
            d    == IF sign THEN b + 2 ELSE b + 1
        IN  IF exp /\ ~(d < input_len /\ is_digit(InputAt(d)))
                THEN /\ ~ret
                     /\ error_msg = "invalid number format"
                     /\ pos = d
                ELSE /\ ReturnedToken
                     /\ pos = (IF exp THEN DigitRunEnd(d) ELSE b)
                     /\ current_token.type \in {"TOKEN_ICONST", "TOKEN_FCONST"}
                     /\ current_token.type = "TOKEN_ICONST" <=> ~(frac \/ exp)
                     /\ input = Bytes("123") => current_token.data.ival = <<1, 2, 3>>

C6_Witness ==
    /\ ncalls = 1
    /\ \/ input = Bytes("1e") /\ ~ret /\ error_msg = "invalid number format"
       \/ input = Bytes("1.5e-3") /\ ret /\ current_token.type = "TOKEN_FCONST"

\* The decimal value of a run of ASCII digits, as a numeral.
DecimalValue(digits) == StripZeros(DigitValues(digits))

\* What C7 says of a `$` at a token start, for the integer value v it
\* names: a digit after it gives one TOKEN_PARAM token over `$` and the
\* maximal digit run, otherwise the call fails.
ParameterMarker(v(_)) ==
    (ncalls > 0 /\ StartByte = Ch("$")) =>
        LET o == current_token.location.offset
        IN  IF o + 1 < input_len /\ is_digit(InputAt(o + 1))
                THEN LET e == DigitRunEnd(o + 1)
                         digits == InputBytes(o + 1, e - o - 1)
                     IN  /\ ReturnedToken
                         /\ current_token.type = "TOKEN_PARAM"
                         /\ pos = e
                         /\ TokenText = <<Ch("$")>> \o digits
                         /\ current_token.data.ival = v(digits)
                ELSE /\ ~ret
                     /\ error_msg = "invalid parameter marker"
                     /\ pos = o + 1

\* The decimal value clamped to the largest int64_t.
ClampedDecimalValue(digits) ==
    IF NumeralLess(LLONG_MAX, DecimalValue(digits))
        THEN LLONG_MAX ELSE DecimalValue(digits)

\* C7 as stated: the integer value of the parameter token is the decimal
\* value of its digits.
C7_ParamDecimalValue == ParameterMarker(DecimalValue)

\* C7 amended: the integer value of the parameter token is the decimal
\* value of its digits when that is at most 2^63 - 1, and 2^63 - 1 when it
\* is larger.
C7_ParamClampedValue == ParameterMarker(ClampedDecimalValue)

C7_Witness ==
    /\ ReturnedToken
    /\ current_token.type = "TOKEN_PARAM"
    /\ input = Bytes("$9223372036854775808")
    /\ current_token.data.ival = LLONG_MAX

\* C8: once the end-of-input token was returned, a further call returns
\* true with the end-of-input token, value NULL and length 0, and leaves
\* position, line and column as they were.
C8_EndOfInputRepeats ==
    [][(ret /\ has_current /\ current_token.type = "TOKEN_EOF")
        => /\ ret' /\ has_current'
           /\ current_token'.type = "TOKEN_EOF"
           /\ current_token'.value = NULL
           /\ current_token'.length = 0
           /\ pos' = pos /\ line' = line /\ column' = column]_vars

C8_Witness ==
    /\ ncalls >= 3
    /\ calls[ncalls - 1].ret /\ calls[ncalls - 1].offset = input_len
    /\ calls[ncalls - 2].offset < input_len
    /\ ret /\ current_token.type = "TOKEN_EOF"
    /\ pos = input_len

\* The message the lexer gives for a failure of the token that starts with
\* byte c.
FailureMessage(c) ==
    IF c \in {Ch("'"), Ch("\"")} THEN "unterminated string literal"
    ELSE IF is_digit(c) THEN "invalid number format"
    ELSE IF c = Ch("$") THEN "invalid parameter marker"
    ELSE IF c = Ch("!") THEN "unexpected character '!'"
    ELSE "unexpected character"

\* C9: a call that fails returns false, leaves lexer_current_token NULL and
\* lexer_error at the message that names the failure; a call that succeeds
\* returns true and lexer_current_token is the token scanned by that call.
C9_FailureReported ==
    [][IF ret'
           THEN /\ lexer_current_token' = <<current_token'>>
                /\ current_token'.location.offset >= pos
                /\ current_token'.location.offset <= pos'
           ELSE /\ lexer_current_token' = <<>>
                /\ lexer_error' # NullMsg
                /\ lexer_error' = FailureMessage(InputAt(current_token'.location.offset))]_vars

C9_Witness ==
    /\ ncalls >= 2
    /\ ~calls[ncalls - 1].ret
    /\ ret /\ lexer_current_token = <<current_token>>
    /\ current_token.type = "TOKEN_IDENT"
    /\ lexer_error = "invalid parameter marker"

\* The calls that failed so far.
FailedCalls == {i \in 1..ncalls : ~calls[i].ret}

\* C10: lexer_error is NULL exactly when no call has failed so far, and
\* otherwise is the message of the most recent failing call.
C10_LastError ==
    IF FailedCalls = {}
        THEN lexer_error = NullMsg
        ELSE LET last == CHOOSE i \in FailedCalls : \A j \in FailedCalls : j <= i
             IN  /\ lexer_error # NullMsg
                 /\ lexer_error = FailureMessage(InputAt(calls[last].offset))

C10_Witness ==
    /\ Cardinality(FailedCalls) >= 2
    /\ ret
    /\ \E i \in FailedCalls, j \in FailedCalls :
           /\ i < j
           /\ FailureMessage(InputAt(calls[i].offset))
                  # FailureMessage(InputAt(calls[j].offset))
           /\ \A k \in FailedCalls : k <= j
           /\ lexer_error = FailureMessage(InputAt(calls[j].offset))

\* C11: the word of an identifier lexeme gets a reserved-word kind only when
\* it equals, case-insensitively and in its whole length, a spelling of the
\* keyword table, and then the kind is the one stored with that spelling; a
\* word that extends a keyword or is a proper prefix of one, and is not in
\* the table, gets TOKEN_IDENT.
C11_KeywordExactLength ==
    (ReturnedToken /\ is_alpha(StartByte)) =>
        LET M == {i \in 1..num_keywords : LowerCase(TokenText) = keyword_names[i]}
        IN  /\ M = {} => current_token.type = "TOKEN_IDENT"
            /\ current_token.type # "TOKEN_IDENT"
                   => \E i \in M : current_token.type = keywords[i].token

C11_Witness ==
    /\ ReturnedToken
    /\ input \in {Bytes("andx"), Bytes("sel")}
    /\ TokenText = input
    /\ current_token.type = "TOKEN_IDENT"

\* C12: no call moves the position backwards, whether it returns a token,
\* fails, or is made after the end of input was reached.
C12_PositionMonotone == [][pos' >= pos]_vars

C12_Witness ==
    /\ ncalls >= 4
    /\ \E i \in 1..(ncalls - 1) : ~calls[i].ret /\ calls[i].pos < input_len
    /\ calls[ncalls - 1].ret /\ calls[ncalls - 1].offset = input_len
    /\ ret /\ pos = input_len
    /\ \A i \in 1..(ncalls - 1) : calls[i].pos <= calls[i + 1].pos

\* The newline bytes among input[0 .. o).
NewlinesBefore(o) == {k \in 0..(o - 1) : InputAt(k) = Ch("\n")}

\* The 1-based line and column of the byte at offset o.
LineOf(o) == 1 + Cardinality(NewlinesBefore(o))

ColumnOf(o) ==
    IF NewlinesBefore(o) = {} THEN 1 + o
    ELSE o - (CHOOSE k \in NewlinesBefore(o) : \A j \in NewlinesBefore(o) : j <= k)

\* C13: line is 1 plus the number of newline bytes consumed and column is
\* 1 plus the number of bytes consumed since the last consumed newline, or
\* since the start of input.
C13_LineColumn ==
    /\ pos \in 0..input_len
    /\ line = LineOf(pos)
    /\ column = ColumnOf(pos)

C13_Witness ==
    /\ ncalls >= 2
    /\ line >= 3
    /\ column >= 3
    /\ pos < input_len

\* A comment opener stands at offset o.
CommentOpenerAt(o) ==
    /\ o + 1 < input_len
    /\ \/ InputAt(o) = Ch("-") /\ InputAt(o + 1) = Ch("-")
       \/ InputAt(o) = Ch("/") /\ InputAt(o + 1) = Ch("*")

\* C14: the location of a returned token is the cursor as it stood after
\* whitespace and comments were skipped and before the token was consumed:
\* offset is the index of the first byte of the lexeme (the opening quote
\* of a string, the input length for end-of-input), which the call reaches
\* from its starting position over whitespace and comments only, and line
\* and column are the 1-based coordinates of that byte.
C14_LocationAtTokenStart ==
    [][ret' =>
          LET loc == current_token'.location
              o   == loc.offset
              len == current_token'.length
          IN  /\ pos <= o /\ o <= pos'
              /\ o > pos => is_space(InputAt(pos)) \/ CommentOpenerAt(pos)
              /\ loc.line = LineOf(o)
              /\ loc.column = ColumnOf(o)
              /\ IF current_token'.type = "TOKEN_EOF"
                     THEN o = input_len /\ pos' = o
                     ELSE /\ o < input_len
                          /\ ~is_space(InputAt(o))
                          /\ ~CommentOpenerAt(o)
                          /\ IF current_token'.type = "TOKEN_SCONST"
                                 THEN /\ InputAt(o) \in {Ch("'"), Ch("\"")}
                                      /\ pos' = o + len + 2
                                 ELSE /\ pos' = o + len
                                      /\ TokenText' = InputBytes(o, len)]_vars

C14_Witness ==
    /\ ncalls >= 2
    /\ ReturnedToken
    /\ current_token.location.offset > calls[ncalls - 1].pos + 3
    /\ current_token.location.line >= 2
    /\ current_token.location.column >= 3

\* Strings as the grammar describes them, for a literal opened at offset o.
\* A backslash escapes the byte after it when an even number of backslashes
\* stands directly before it.
BackslashRunStart(k) ==
    CHOOSE a \in 0..k :
        /\ \A j \in a..k : InputAt(j) = Ch("\\")
        /\ a = 0 \/ InputAt(a - 1) # Ch("\\")

EscapingBackslash(k) ==
    InputAt(k) = Ch("\\") /\ (k - BackslashRunStart(k)) % 2 = 0

Escaped(o, k) == k - 1 > o /\ EscapingBackslash(k - 1)

\* The first delimiter of the run of delimiters that ends at e, inside the
\* literal opened at o.
DelimiterRunStart(o, e) ==
    CHOOSE a \in (o + 1)..e :
        /\ \A j \in a..e : InputAt(j) = InputAt(o)
        /\ a = o + 1 \/ InputAt(a - 1) # InputAt(o)

\* The delimiter at e closes the literal opened at o when it ends a run of
\* delimiters of which an odd number is unescaped: the others pair up as
\* doubled delimiters.
ClosesAt(o, e) ==
    /\ InputAt(e) = InputAt(o)
    /\ e + 1 < input_len => InputAt(e + 1) # InputAt(o)
    /\ LET a == DelimiterRunStart(o, e)
           n == (e - a + 1) - (IF Escaped(o, a) THEN 1 ELSE 0)
       IN  n % 2 = 1

\* The offsets at which the literal opened at o can end: the first is the
\* closing delimiter.
ClosingOffsets(o) == {e \in (o + 1)..(input_len - 1) : ClosesAt(o, e)}

ClosingOffset(o) ==
    CHOOSE e \in ClosingOffsets(o) : \A f \in ClosingOffsets(o) : e <= f

\* The last call started at a quote, at offset o.
StringStartedAt(o) ==
    /\ ncalls > 0
    /\ o = current_token.location.offset
    /\ o < input_len
    /\ InputAt(o) \in {Ch("'"), Ch("\"")}

\* C15: in a string literal a backslash and the byte after it are consumed
\* as a pair: the byte after it is neither the closing delimiter nor half
\* of a doubled delimiter, so a literal with a backslash ends at the first
\* delimiter that is neither escaped nor doubled, and fails when there is
\* none; the pair is copied into the value unchanged.
C15_BackslashPair ==
    \A o \in 0..(input_len - 1) :
        (StringStartedAt(o) /\ \E k \in (o + 1)..(input_len - 1) : InputAt(k) = Ch("\\"))
        => IF ClosingOffsets(o) = {}
               THEN ~ret /\ pos = input_len
               ELSE LET e == ClosingOffset(o)
                    IN  /\ ReturnedToken
                        /\ current_token.type = "TOKEN_SCONST"
                        /\ pos = e + 1
                        /\ \A k \in (o + 1)..(e - 1) :
                               EscapingBackslash(k) =>
                                   /\ k + 1 < e
                                   /\ SubSeq(TokenText, k - o, k - o + 1)
                                          = <<Ch("\\"), InputAt(k + 1)>>

C15_Witness ==
    /\ ncalls = 1
    /\ ReturnedToken
    /\ input = Bytes("'\\''")
    /\ TokenText = Bytes("\\'")

\* C16: a literal opened by a quote character ends only at a delimiter of
\* the same character that is neither escaped nor doubled, the other quote
\* character being ordinary content; when the input ends before one is
\* found, also after a trailing backslash or a trailing doubled delimiter,
\* the call fails with the unterminated-string error.
C16_StringTermination ==
    \A o \in 0..(input_len - 1) :
        StringStartedAt(o)
        => IF ClosingOffsets(o) = {}
               THEN /\ ~ret
                    /\ lexer_current_token = <<>>
                    /\ lexer_error = "unterminated string literal"
                    /\ pos = input_len
               ELSE /\ ReturnedToken
                    /\ current_token.type = "TOKEN_SCONST"
                    /\ pos = ClosingOffset(o) + 1
                    /\ InputAt(pos - 1) = InputAt(o)
                    /\ current_token.length = pos - o - 2

C16_Witness ==
    /\ ncalls = 1
    /\ \/ /\ input = Bytes("\"a'b\"")
          /\ ReturnedToken
          /\ TokenText = Bytes("a'b")
       \/ /\ input \in {Bytes("'a''"), Bytes("'a\\")}
          /\ ~ret
          /\ lexer_error = "unterminated string literal"

\* The bytes that start a token of some kind: quotes, digits, letters, the
\* underscore and the characters the operator scanner has a case for.
TokenStartBytes ==
    {b \in 0..255 : b \in 48..57 \/ b \in 65..90 \/ b \in 97..122}
        \cup Alphabet("'\"_()[]{},;.+-*/%^<>=!|&#~:$")

\* C17: a `!` at a token start that is not followed by `=` or `~`, and a
\* byte at a token start that starts no token (a NUL byte and the bytes
\* above 127 among them), make the call fail with an unexpected-character
\* error and leave no current token.
C17_UnexpectedCharacter ==
    (ncalls > 0 /\ current_token.location.offset < input_len) =>
        LET o == current_token.location.offset
            bare == /\ StartByte = Ch("!")
                    /\ ~(o + 1 < input_len /\ InputAt(o + 1) \in {Ch("="), Ch("~")})
        IN  (bare \/ StartByte \notin TokenStartBytes)
                => /\ ~ret
                   /\ lexer_current_token = <<>>
                   /\ lexer_error = (IF bare THEN "unexpected character '!'"
                                              ELSE "unexpected character")

C17_Witness ==
    /\ ncalls >= 2
    /\ ~ret
    /\ StartByte \in {NUL, 200}
    /\ current_token.location.offset < input_len
    /\ lexer_error = "unexpected character"
    /\ \E i \in 1..(ncalls - 1) :
           /\ ~calls[i].ret
           /\ InputAt(calls[i].offset) = Ch("!")

\* parser_parse has returned: the list it returned is parse_tree.
ParseReturned == parse_pc = "idle" /\ parse_tree # <<>>

\* The list parser_parse returned.
ParsedList == parse_tree[1]

\* The lexer calls the last parser_parse made.
ParseCalls == (parse_start + 1)..ncalls

\* The text of a token copy: `length` bytes of the buffer at its value,
\* which holds them only when it is long enough.
CopyText(t) ==
    IF t.value = NULL THEN <<>>
    ELSE [i \in 1..t.length |-> ByteAt(heap[t.value].bytes, i - 1)]

\* C18: the list parser_parse returns holds, in order, one copy of every
\* token the lexer yielded in its calls before the end-of-input token or
\* the failing call, each copy with the token's fields and its text in a
\* live buffer of its own; parser_error is the lexer's error message when
\* a scan failed and NULL when none did.
C18_ParseTokenList ==
    ParseReturned =>
        /\ ParseCalls # {}
        /\ list_length(ParsedList) = ncalls - parse_start - 1
        /\ \A i \in ParseCalls :
               i < ncalls => calls[i].ret /\ calls[i].token.type # "TOKEN_EOF"
        /\ ~calls[ncalls].ret \/ calls[ncalls].token.type = "TOKEN_EOF"
        /\ \A i \in 1..list_length(ParsedList) :
               LET t == ParsedList[i]
                   c == calls[parse_start + i]
               IN  /\ [t EXCEPT !.value = NULL] = [c.token EXCEPT !.value = NULL]
                   /\ t.value # NULL
                   /\ heap[t.value].frees = 0
                   /\ heap[t.value].size >= t.length + 1
                   /\ CopyText(t) = c.text
                   /\ t.value # current_token.value
                   /\ \A j \in 1..list_length(ParsedList) :
                          j # i => ParsedList[j].value # t.value
        /\ IF FailedCalls = {}
               THEN parser_error = NullMsg
               ELSE parser_error = lexer_error /\ parser_error # NullMsg
        /\ ~calls[ncalls].ret => parser_error = lexer_error /\ parser_error # NullMsg

\* Where the scanner of the token that starts at offset o stops when it
\* fails: at the end of input for a string, after the exponent marker and
\* its sign for a number, after the first byte otherwise.
FailureStop(o) ==
    IF InputAt(o) \in {Ch("'"), Ch("\"")} THEN input_len
    ELSE IF is_digit(InputAt(o))
        THEN LET a    == DigitRunEnd(o)
                 frac == /\ a + 1 < input_len
                         /\ InputAt(a) = Ch(".") /\ is_digit(InputAt(a + 1))
                 b    == IF frac THEN DigitRunEnd(a + 1) ELSE a
                 sign == b + 1 < input_len /\ InputAt(b + 1) \in {Ch("+"), Ch("-")}
             IN  IF sign THEN b + 2 ELSE b + 1
    ELSE o + 1

\* C19: a failing call leaves the position past the start of the token it
\* failed on, where its scanner stopped, and the call after a failing call
\* scans on from that position.
C19_NoRollback ==
    [][/\ ~ret' =>
              /\ pos' > current_token'.location.offset
              /\ pos' = FailureStop(current_token'.location.offset)
       /\ (ncalls > 0 /\ ~ret) =>
              LET o == current_token'.location.offset
              IN  /\ o >= pos
                  /\ o > pos => is_space(InputAt(pos)) \/ CommentOpenerAt(pos)
                  /\ pos' >= o]_vars

C19_Witness ==
    /\ ncalls = 2
    /\ input = Bytes("1e-x")
    /\ ~calls[1].ret /\ calls[1].offset = 0 /\ calls[1].pos = 3
    /\ ReturnedToken
    /\ current_token.location.offset = 3
    /\ TokenText = Bytes("x")

\* The buffers that are allocated and not freed.
LiveBuffers == {p \in 1..Len(heap) : heap[p].frees = 0}

\* C20: every text buffer a scanner allocated is freed exactly once, by a
\* later lexer_next_token call or by lexer_destroy: none is freed twice,
\* and once the lexer is destroyed none is left allocated.
C20_BuffersFreedOnce ==
    /\ \A p \in 1..Len(heap) : heap[p].frees <= 1
    /\ ~lexer_alive => LiveBuffers = {}

\* C21: the operator scanner writes only inside the buffer it allocated:
\* every index of token->value it writes, that of the terminating NUL
\* included, is below the allocated size of the buffer.
C21_OperatorWritesInBounds ==
    \A p \in 1..Len(heap) :
        /\ ~heap[p].overrun
        /\ Len(heap[p].bytes) + 1 <= heap[p].size

\* C22: when the digits at a token start are followed by a `.` that no
\* digit follows, the call returns a TOKEN_ICONST token over the digits
\* alone and the next call returns a TOKEN_DOT token for the `.`.
C22_TrailingDot ==
    \A i \in 1..ncalls :
        LET o == calls[i].offset
        IN  (o < input_len /\ is_digit(InputAt(o))) =>
                LET a == DigitRunEnd(o)
                IN  (/\ a < input_len /\ InputAt(a) = Ch(".")
                     /\ a + 1 < input_len => ~is_digit(InputAt(a + 1)))
                    => /\ calls[i].ret
                       /\ calls[i].token.type = "TOKEN_ICONST"
                       /\ calls[i].text = InputBytes(o, a - o)
                       /\ calls[i].pos = a
                       /\ i < ncalls =>
                              /\ calls[i + 1].ret
                              /\ calls[i + 1].token.type = "TOKEN_DOT"
                              /\ calls[i + 1].offset = a
                              /\ calls[i + 1].text = <<Ch(".")>>
                              /\ calls[i + 1].pos = a + 1

C22_Witness ==
    /\ ncalls = 2
    /\ input \in {Bytes("12."), Bytes("1.e")}
    /\ calls[1].token.type = "TOKEN_ICONST"
    /\ ReturnedToken
    /\ current_token.type = "TOKEN_DOT"
    /\ current_token.location.offset = input_len - (IF input = Bytes("12.") THEN 1 ELSE 2)

\* Comments as the grammar describes them.  A line comment at offset o runs
\* up to the next newline or the end of input.
LineCommentAt(o) ==
    o + 1 < input_len /\ InputAt(o) = Ch("-") /\ InputAt(o + 1) = Ch("-")

LineCommentEnd(o) ==
    CHOOSE e \in (o + 2)..input_len :
        /\ \A k \in (o + 2)..(e - 1) : InputAt(k) # Ch("\n")
        /\ e = input_len \/ InputAt(e) = Ch("\n")

\* A block comment at offset o runs through the first `*/` that starts
\* after the two bytes of its opener.
BlockCommentAt(o) ==
    o + 1 < input_len /\ InputAt(o) = Ch("/") /\ InputAt(o + 1) = Ch("*")

BlockCommentClosers(o) ==
    {k \in (o + 2)..(input_len - 2) : InputAt(k) = Ch("*") /\ InputAt(k + 1) = Ch("/")}

BlockCommentEnd(o) ==
    2 + CHOOSE k \in BlockCommentClosers(o) : \A j \in BlockCommentClosers(o) : k <= j

\* The first offset at or after p that holds no whitespace byte.
SpacesEnd(p) ==
    CHOOSE e \in p..input_len :
        /\ \A k \in p..(e - 1) : is_space(InputAt(k))
        /\ e = input_len \/ ~is_space(InputAt(e))

\* The offset of the first lexeme at or after p, with whitespace, line
\* comments and terminated block comments passed over; -1 when a block
\* comment without an end is met on the way.
RECURSIVE FirstLexeme(_)
FirstLexeme(p) ==
    LET s == SpacesEnd(p)
    IN  IF LineCommentAt(s) THEN FirstLexeme(LineCommentEnd(s))
        ELSE IF BlockCommentAt(s)
            THEN IF BlockCommentClosers(s) = {} THEN -1
                 ELSE FirstLexeme(BlockCommentEnd(s))
        ELSE s

\* C23: a call that meets line comments and terminated block comments
\* yields no token and no error for them: its token is the first lexeme
\* after them (end-of-input when there is none), a failure is that of this
\* lexeme, and the newline that ends a line comment is counted in line.
C23_CommentsSkipped ==
    [][LET s == SpacesEnd(pos)
           f == FirstLexeme(pos)
       IN  ((LineCommentAt(s) \/ BlockCommentAt(s)) /\ f # -1) =>
               /\ current_token'.location.offset = f
               /\ current_token'.location.line = LineOf(f)
               /\ IF f = input_len
                      THEN /\ ret'
                           /\ current_token'.type = "TOKEN_EOF"
                           /\ error_msg' = error_msg
                      ELSE IF ret'
                               THEN /\ current_token'.type # "TOKEN_EOF"
                                    /\ error_msg' = error_msg
                               ELSE error_msg' = FailureMessage(InputAt(f))]_vars

C23_Witness ==
    /\ ncalls = 1
    /\ \/ /\ input = Bytes("/*/ a */ b")
          /\ ReturnedToken
          /\ current_token.location.offset = 9
          /\ TokenText = Bytes("b")
       \/ /\ input = Bytes("/* a */-- b\n c")
          /\ ReturnedToken
          /\ current_token.location.line = 2
          /\ TokenText = Bytes("c")

\* C24: a scanner is entered only with the cursor before the end of input,
\* at a byte that is no whitespace and where no comment opens; so no token
\* starts at a whitespace byte, no TOKEN_MINUS token is followed at once by
\* `-` and no TOKEN_DIVIDE token by `*`.
C24_SkipLoopPostcondition ==
    ncalls > 0 =>
        LET o == current_token.location.offset
        IN  /\ o = input_len =>
                   ret /\ current_token.type = "TOKEN_EOF" /\ current_token.value = NULL
            /\ o < input_len =>
                   /\ InputAt(o) \notin {Ch(" "), Ch("\t"), Ch("\n"), Ch("\r"), Ch("\f")}
                   /\ ~LineCommentAt(o)
                   /\ ~BlockCommentAt(o)
                   /\ ret => current_token.type # "TOKEN_EOF"
            /\ (ReturnedToken /\ current_token.type = "TOKEN_MINUS")
                   => /\ pos = o + 1
                      /\ pos < input_len => InputAt(pos) # Ch("-")
            /\ (ReturnedToken /\ current_token.type = "TOKEN_DIVIDE")
                   => /\ pos = o + 1
                      /\ pos < input_len => InputAt(pos) # Ch("*")

C24_Witness ==
    /\ ncalls = 1
    /\ input = Bytes("/* a */-- b\n c")
    /\ ReturnedToken
    /\ current_token.location.offset = 13

\* The kinds of operator and punctuation tokens.
OperatorKinds ==
    {"TOKEN_LPAREN", "TOKEN_RPAREN", "TOKEN_LBRACKET", "TOKEN_RBRACKET",
     "TOKEN_LBRACE", "TOKEN_RBRACE", "TOKEN_COMMA", "TOKEN_SEMICOLON",
     "TOKEN_DOT", "TOKEN_PLUS", "TOKEN_MINUS", "TOKEN_MULTIPLY", "TOKEN_DIVIDE",
     "TOKEN_MODULO", "TOKEN_POWER", "TOKEN_LT", "TOKEN_LE", "TOKEN_GT",
     "TOKEN_GE", "TOKEN_EQ", "TOKEN_NE", "TOKEN_LSHIFT", "TOKEN_RSHIFT",
     "TOKEN_CONCAT", "TOKEN_BITOR", "TOKEN_BITAND", "TOKEN_BITXOR",
     "TOKEN_REGEX_MATCH", "TOKEN_REGEX_IMATCH", "TOKEN_REGEX_NMATCH",
     "TOKEN_REGEX_INMATCH", "TOKEN_JSON_EXTRACT", "TOKEN_JSON_EXTRACT_TEXT",
     "TOKEN_JSON_PATH", "TOKEN_JSON_PATH_TEXT", "TOKEN_TYPECAST", "TOKEN_COLON"}

\* TOKEN_IDENT and the kinds of the reserved words.
WordKinds == {"TOKEN_IDENT"} \cup {keywords[i].token : i \in 1..num_keywords}

\* The ASCII letters and the underscore; the ASCII digits; the quotes.
LetterBytes == (65..90) \cup (97..122) \cup {95}

DigitBytes == 48..57

QuoteBytes == {39, 34}

\* C25: the kind of a returned token follows from the byte at its
\* location.offset: TOKEN_SCONST exactly at a quote, TOKEN_ICONST or
\* TOKEN_FCONST exactly at a digit, TOKEN_IDENT or a reserved-word kind
\* exactly at a letter or underscore, an operator kind or TOKEN_PARAM
\* exactly at any other byte, TOKEN_EOF exactly at the end of input.
C25_KindByStartByte ==
    (ret /\ has_current) =>
        LET o == current_token.location.offset
            kind == current_token.type
        IN  /\ kind = "TOKEN_EOF" <=> o = input_len
            /\ o < input_len =>
                   /\ kind = "TOKEN_SCONST" <=> InputAt(o) \in QuoteBytes
                   /\ kind \in {"TOKEN_ICONST", "TOKEN_FCONST"} <=> InputAt(o) \in DigitBytes
                   /\ kind \in WordKinds <=> InputAt(o) \in LetterBytes
                   /\ kind \in OperatorKinds \cup {"TOKEN_PARAM"}
                          <=> InputAt(o) \notin QuoteBytes \cup DigitBytes \cup LetterBytes

C25_Witness ==
    /\ ncalls = 5
    /\ input = Bytes("a ->> 'b' 1.5 $2")
    /\ calls[1].token.type = "TOKEN_IDENT"
    /\ calls[2].token.type = "TOKEN_JSON_EXTRACT_TEXT"
    /\ calls[3].token.type = "TOKEN_SCONST"
    /\ calls[4].token.type = "TOKEN_FCONST"
    /\ ReturnedToken
    /\ current_token.type = "TOKEN_PARAM"

\* C26: every call ends; a call that does not return the end-of-input
\* token, whether it succeeds or fails, moves the position
\* forward; so the call number input_len + 1, and every later one, returns
\* the end-of-input token.
C26_Progress ==
    [][/\ ncalls' = ncalls + 1
       /\ ~(ret' /\ has_current' /\ current_token'.type = "TOKEN_EOF")
              => pos' > pos
       /\ ncalls' >= input_len + 1
              => /\ ret' /\ has_current'
                 /\ current_token'.type = "TOKEN_EOF"
                 /\ pos' = input_len]_vars

C26_Witness ==
    /\ input_len >= 3
    /\ ncalls = input_len + 1
    /\ ret /\ current_token.type = "TOKEN_EOF"
    /\ \A i \in 1..input_len : calls[i].pos = i
    /\ \E i \in 1..input_len : ~calls[i].ret
    /\ \E i \in 1..input_len : calls[i].ret

\* C27: the position never passes input_len; every offset at which the next
\* lexer_next_token call reads the input (cursor primitives, skip routines,
\* scanners, driver) lies below input_len; and at the end of input
\* lexer_peek yields NUL and lexer_advance leaves position, line and column
\* as they are, neither reading the input.
C27_ReadsInBounds ==
    /\ pos \in 0..input_len
    /\ \A i \in lexer_next_token_reads : i \in 0..(input_len - 1)
    /\ LET end == [pos |-> input_len, line |-> line, column |-> column]
       IN  /\ lexer_peek(end) = NUL
           /\ lexer_advance(end) = end
           /\ cursor_reads(end) = {}

\* Calls were made, and the next one runs an unterminated block comment
\* up to a final `*`, reading every byte that is left.
C27_Witness ==
    /\ ncalls >= 1
    /\ pos + 3 <= input_len
    /\ AtBlockComment(lexer_skip_whitespace(
                          [pos |-> pos, line |-> line, column |-> column]))
    /\ InputAt(input_len - 1) = Ch("*")
    /\ lexer_next_token_reads = pos..(input_len - 1)

\* The bytes at offsets p .. o - 1 are whitespace bytes, line comments and
\* block comments, one after another.  A block comment with no `*/` runs to
\* the end of the input, so every byte after its opener belongs to it.
RECURSIVE Filler(_, _)
Filler(p, o) ==
    \/ p = o
    \/ /\ p < o
       /\ \/ is_space(InputAt(p)) /\ Filler(p + 1, o)
          \/ /\ LineCommentAt(p)
             /\ LineCommentEnd(p) <= o
             /\ Filler(LineCommentEnd(p), o)
          \/ /\ BlockCommentAt(p)
             /\ p + 2 <= o
             /\ \/ BlockCommentClosers(p) = {}
                \/ /\ BlockCommentClosers(p) # {}
                   /\ BlockCommentEnd(p) <= o
                   /\ Filler(BlockCommentEnd(p), o)

\* C28: tokens tile the input in source order.  Of two successful calls
\* made one right after the other, the second token starts at or after the
\* position where the scan of the first ended, and the bytes between are
\* whitespace and comments; the byte ranges offset .. pos - 1 of any two
\* successful calls do not overlap.
C28_TokensTile ==
    /\ \A i \in 1..ncalls : calls[i].ret => calls[i].offset <= calls[i].pos
    /\ \A i \in 1..(ncalls - 1) :
           (calls[i].ret /\ calls[i + 1].ret) =>
               /\ calls[i].pos <= calls[i + 1].offset
               /\ Filler(calls[i].pos, calls[i + 1].offset)
    /\ \A i, j \in 1..ncalls :
           (i < j /\ calls[i].ret /\ calls[j].ret) =>
               calls[i].pos <= calls[j].offset

\* Two tokens, one call after the other, with whitespace and a block
\* comment between them, and a third token or the end of input after a
\* line comment.
C28_Witness ==
    /\ ncalls >= 3
    /\ \A i \in 1..ncalls : calls[i].ret
    /\ \E i \in 1..(ncalls - 1) :
           /\ calls[i].offset < calls[i].pos
           /\ calls[i + 1].offset < calls[i + 1].pos
           /\ \E k \in calls[i].pos..(calls[i + 1].offset - 1) : is_space(InputAt(k))
           /\ \E k \in calls[i].pos..(calls[i + 1].offset - 1) : BlockCommentAt(k)
    /\ \E i \in 1..(ncalls - 1) :
           \E k \in calls[i].pos..(calls[i + 1].offset - 1) : LineCommentAt(k)

\* C29: the storage engine is a map from keys to values: a get of a key
\* returns the value of the last successful put of that key when no
\* successful delete of the key came after that put, and NULL otherwise.
C29_StoreIsMap ==
    (store_call.op = "get" /\ store_call.key # NullString) =>
        store_call.ret = last_put[store_call.key]

\* C30: btree_insert fails exactly when MAX_KEYS entries are stored or an
\* argument is NULL, and btree_delete exactly when no stored entry has the
\* key (or the key is NULL); a failed call changes no key, no value and not
\* the count; a successful insert raises the count by one and a successful
\* delete lowers it by one, and the count stays within 0 .. MAX_KEYS.
C30_FailedStoreOpsChangeNothing ==
    [][/\ num_keys' \in 0..MAX_KEYS
       /\ (store_call'.op \in {"put", "delete"} /\ store_call'.ret # 0) =>
              /\ store_call'.ret = -1
              /\ keys' = keys
              /\ values' = values
       /\ store_call'.op = "put" =>
              /\ store_call'.ret = -1 <=>
                     \/ num_keys = MAX_KEYS
                     \/ store_call'.key = NullString
                     \/ store_call'.value = NullString
              /\ store_call'.ret = 0 => num_keys' = num_keys + 1
       /\ store_call'.op = "delete" =>
              /\ store_call'.ret = -1 <=>
                     \/ store_call'.key = NullString
                     \/ \A i \in 1..num_keys : keys[i] # store_call'.key
              /\ store_call'.ret = 0 => num_keys' = num_keys - 1]_vars

\* A put of a key and a value, neither NULL, that failed on the full store.
C30_Witness ==
    /\ num_keys = MAX_KEYS
    /\ store_call.op = "put"
    /\ store_call.key # NullString
    /\ store_call.value # NullString
    /\ store_call.ret = -1
    /\ \E k \in StoreKeys : \A i \in 1..num_keys : keys[i] # k

\* The frames listed in the first free_count slots of free_list.
FreeFrames == {free_slot(i) : i \in 0..(free_count - 1)}

\* C31: free_count never passes num_pages; the first free_count slots of
\* free_list hold frame indexes below num_pages, no index twice; and a frame
\* is listed there exactly when its ref_count is not 1 and it is not pinned.
C31_FreeListInvariant ==
    /\ free_count \in 0..num_pages
    /\ \A i \in 0..(free_count - 1) : free_slot(i) \in 0..(num_pages - 1)
    /\ \A i, j \in 0..(free_count - 1) : i # j => free_slot(i) # free_slot(j)
    /\ \A f \in 0..(num_pages - 1) :
           f \in FreeFrames <=> (frame(f).ref_count # 1 /\ ~frame(f).pinned)

\* One frame is held, another was released more often than it was handed
\* out, and a third was never handed out.
C31_Witness ==
    /\ num_pages >= 3
    /\ free_count = num_pages - 1
    /\ pool_call.op = "release"
    /\ \E f \in 0..(num_pages - 1) : frame(f).ref_count = 1 /\ frame(f).pinned
    /\ \E f \in FreeFrames : frame(f).ref_count < 0
    /\ \E f \in FreeFrames : frame(f).ref_count = 0

\* What C32 says of a get_page call apart from the order of handing out:
\* it returns NULL, changing nothing, exactly when no frame is free;
\* otherwise the frame it returns was not held, and is left pinned with
\* ref_count 1, dirty false and the page_id asked for, no other frame
\* being touched.
GetPageHandsOutFreeFrame ==
    pool_call'.op = "get" =>
        /\ pool_call'.ret = NULL <=> FreeFrames = {}
        /\ pool_call'.ret = NULL =>
               /\ pages' = pages
               /\ free_list' = free_list
               /\ free_count' = free_count
        /\ pool_call'.ret # NULL =>
               /\ pool_call'.ret \notin held
               /\ frame_index(pool_call'.ret) \in FreeFrames
               /\ pages'[pool_call'.ret] =
                      [page_id |-> pool_call'.page_id, dirty |-> FALSE,
                       pinned |-> TRUE, ref_count |-> 1]
               /\ \A p \in 1..num_pages : p # pool_call'.ret => pages'[p] = pages[p]
               /\ free_count' = free_count - 1

C33_OnePinnedFramePerPage ==
    \A f, g \in 0..(num_pages - 1) :
        (frame(f).pinned /\ frame(g).pinned /\ frame(f).page_id = frame(g).page_id)
            => f = g

\* C34: no lexer_next_token call sets the message "invalid identifier": the
\* driver enters the identifier scanner only at a letter or an underscore,
\* so a call that meets any other byte fails, if it fails, with another
\* message.
C34_NoInvalidIdentifier ==
    /\ error_msg # "invalid identifier"
    /\ ncalls > 0 =>
           LET o == current_token.location.offset
           IN  (o < input_len /\ ~ret /\ ~is_alpha(InputAt(o)))
                   => error_msg = FailureMessage(InputAt(o))

\* An identifier was scanned after a call had failed at a byte that opens
\* no token.
C34_Witness ==
    /\ ReturnedToken
    /\ current_token.type = "TOKEN_IDENT"
    /\ error_msg \in {"unexpected character", "unexpected character '!'"}
    /\ \E i \in 1..(ncalls - 1) :
           ~calls[i].ret /\ calls[i].offset < current_token.location.offset

\* a comes before b, byte by byte, a proper prefix coming first (the order
\* of strcmp).
RECURSIVE BytesLess(_, _)
BytesLess(a, b) ==
    IF b = <<>> THEN FALSE
    ELSE IF a = <<>> THEN TRUE
    ELSE IF Head(a) # Head(b) THEN Head(a) < Head(b)
    ELSE BytesLess(Tail(a), Tail(b))

\* C35: the keyword table is strictly ascending in the byte order of its
\* lower-case spellings, so no spelling occurs twice; every spelling is
\* stored in lower case; and the table is the same in every state, no
\* operation of the lexer writing to it: a reserved-word kind that a call
\* returns is the kind stored with the spelling of the word.
C35_KeywordsAscending ==
    /\ (ReturnedToken /\ current_token.type \in WordKinds \ {"TOKEN_IDENT"}) =>
           \E i \in 1..num_keywords :
               /\ keyword_names[i] = LowerCase(TokenText)
               /\ keywords[i].token = current_token.type
    /\ \A i \in 1..(num_keywords - 1) :
           BytesLess(LowerCase(keyword_names[i]), LowerCase(keyword_names[i + 1]))
    /\ \A i \in 1..num_keywords :
           /\ keyword_names[i] # <<>>
           /\ LowerCase(keyword_names[i]) = keyword_names[i]
           /\ keywords[i].token # "TOKEN_IDENT"

\* After earlier calls, a word was looked up in the table and found at an
\* entry other than the first.
C35_Witness ==
    /\ ncalls >= 2
    /\ ReturnedToken
    /\ \E i \in 2..num_keywords :
           /\ LowerCase(TokenText) = keyword_names[i]
           /\ current_token.type = keywords[i].token

====
